---- MODULE Spec2Model ----
(***************************************************************************)
(* Model of the ComputerTool action dispatcher of computer_use_demo:       *)
(* validation of a tool call, coordinate scaling, the virtual cursor, the  *)
(* key mapper and the driver calls (playwright page) each action makes,    *)
(* and of PlaywrightTool (goto, scroll, zoom) on the same page.            *)
(* Every await of the code is a step of its own, so that a driver call can *)
(* succeed or fail and the position of a dispatch is part of the state.    *)
(***************************************************************************)
EXTENDS Integers, Sequences, FiniteSets, TLC

VARIABLES
    constructed,  \* "no" before ComputerTool.__init__, then "ok" or "failed"
    width,        \* self.width
    height,       \* self.height
    mouse_x,      \* self.mouse_x
    mouse_y,      \* self.mouse_y
    pc,           \* pc[t]: where the dispatch of task t stands
    call,         \* call[t]: the arguments of the dispatch of task t
    pw,           \* pw[t]: the action mapping of the PlaywrightTool dispatch
                  \* of task t, when its dispatch is one
    loc,          \* loc[t]: the locals of the dispatch of task t
    outcome,      \* outcome[t]: what the last dispatch of task t gave its caller
    log,          \* log[t]: the driver calls the current dispatch of task t made
    held,         \* the driver's left button is down
    lastPointer,  \* history: the last pointer action that passed validation and
                  \* the bounds check, the pair it was given and the pair its
                  \* scaling step returned
    sc,           \* the last direct call of scale_coordinates and its result
    ptr           \* history: the driver's pointer, (0,0) plus the deltas of the
                  \* mouse.move calls that succeeded, and the number of pointer
                  \* dispatches that passed validation; kept in the
                  \* specifications that start with ptr.follow

vars == <<constructed, width, height, mouse_x, mouse_y, pc, call, pw, loc,
          outcome, log, held, lastPointer, sc, ptr>>

toolVars == <<constructed, width, height, mouse_x, mouse_y, pc, call, pw, loc,
              outcome, log, held, lastPointer, ptr>>

----------------------------------------------------------------------------
(* Bounds of the model *)

\* how far past the display edge the coordinates given to scale_coordinates go
CoordSlack == 2

----------------------------------------------------------------------------
(* Coordinate Scaler *)

\* the table with an entry before FWXGA whose ratio (16:9) is within the
\* tolerance of FWXGA's
TargetsWithFullHD ==
    << [name |-> "XGA",   width |-> 1024, height |-> 768],
       [name |-> "WXGA",  width |-> 1280, height |-> 800],
       [name |-> "FHD",   width |-> 1920, height |-> 1080],
       [name |-> "FWXGA", width |-> 1366, height |-> 768] >>

MAX_SCALING_TARGETS ==
    << [name |-> "XGA",   width |-> 1024, height |-> 768],
       [name |-> "WXGA",  width |-> 1280, height |-> 800],
       [name |-> "FWXGA", width |-> 1366, height |-> 768] >>

API == "api"
COMPUTER == "computer"
ScalingSource == {COMPUTER, API}

scaling_enabled == TRUE

Abs(n) == IF n < 0 THEN -n ELSE n

\* abs(dimension.width / dimension.height - W / H) < 0.02, over the rationals:
\* |dw*H - W*dh| / (dh*H) < 1/50
RatioMatchesLoose(d, W, H) ==
    5 * Abs(d.width * H - W * d.height) < d.height * H

RatioMatches(d, W, H) ==
    50 * Abs(d.width * H - W * d.height) < d.height * H

WidthFitsOrEqual(d, W) == d.width <= W

\* dimension["width"] < self.width
WidthFits(d, W) == d.width < W

\* The for loop over MAX_SCALING_TARGETS.values(), from entry i on: the first
\* entry whose ratio matches ends the loop (break), and is the target only if
\* it is narrower than the display. 0 stands for target_dimension = None.
RECURSIVE ScanTargets(_, _, _)
ScanTargets(i, W, H) ==
    IF i > Len(MAX_SCALING_TARGETS) THEN 0
    ELSE IF RatioMatches(MAX_SCALING_TARGETS[i], W, H)
         THEN (IF WidthFits(MAX_SCALING_TARGETS[i], W) THEN i ELSE 0)
         ELSE ScanTargets(i + 1, W, H)

TargetDimension(W, H) == ScanTargets(1, W, H)

\* Python's round() of the quotient n / d (n >= 0, d > 0): to the nearest
\* integer, a tie to the even one.
Round(n, d) ==
    LET q == n \div d
        r == n % d
    IN  IF 2 * r < d THEN q
        ELSE IF 2 * r > d THEN q + 1
        ELSE IF q % 2 = 0 THEN q ELSE q + 1

ScaleUpSwapped(v, target, device) == Round(v * target, device)

\* round(v / scaling_factor) with scaling_factor = target / device
ScaleUp(v, target, device) == Round(v * device, target)

ScaleDownSwapped(v, target, device) == Round(v * device, target)

\* round(v * scaling_factor) with scaling_factor = target / device
ScaleDown(v, target, device) == Round(v * target, device)

OutOfBoundsInclusive(x, y, W, H) == x >= W \/ y >= H

\* x > self.width or y > self.height
OutOfBounds(x, y, W, H) == x > W \/ y > H

Scaled(x, y) == [raised |-> FALSE, x |-> x, y |-> y]
ScaleError(x, y) == [raised |-> TRUE, x |-> x, y |-> y]

\* ComputerTool.scale_coordinates on a tool of resolution W x H
scale_coordinates(source, x, y, W, H) ==
    IF ~scaling_enabled THEN Scaled(x, y)
    ELSE LET i == TargetDimension(W, H) IN
         IF i = 0 THEN Scaled(x, y)
         ELSE LET t == MAX_SCALING_TARGETS[i] IN
              IF source = API
              THEN IF OutOfBounds(x, y, W, H)
                   THEN ScaleError(x, y)
                   ELSE Scaled(ScaleUp(x, t.width, W), ScaleUp(y, t.height, H))
              ELSE Scaled(ScaleDown(x, t.width, W), ScaleDown(y, t.height, H))

----------------------------------------------------------------------------
(* Python values of a tool call: action, text and coordinate *)

PyNone == [tag |-> "none", s |-> "", elems |-> <<>>]
PyStr(s) == [tag |-> "str", s |-> s, elems |-> <<>>]
PyInt(n) == [tag |-> "int", s |-> "", elems |-> <<[isint |-> TRUE, n |-> n]>>]
PyList(e) == [tag |-> "list", s |-> "", elems |-> e]
PyTuple(e) == [tag |-> "tuple", s |-> "", elems |-> e]

\* the elements of a coordinate: an int, or a value that is no int (a float)
I(n) == [isint |-> TRUE, n |-> n]
NotAnInt == [isint |-> FALSE, n |-> 0]

\* Literal["key", ..., "cursor_position"]
Action == {"key", "type", "mouse_move", "left_click", "left_click_drag",
           "right_click", "middle_click", "double_click", "screenshot",
           "cursor_position"}

\* the text a string value is shown as in an f-string; other values by TLC's rendering
Repr(v) == IF v.tag = "str" THEN v.s ELSE ToString(v.elems)

(* ToolResult and the errors a dispatch raises *)

NoneStr == [isNone |-> TRUE, msg |-> <<>>]
Str(msg) == [isNone |-> FALSE, msg |-> msg]

\* ToolResult(output=, error=, base64_image=); a field left out is None
ToolResult(output, error, base64_image) ==
    [output |-> output, error |-> error, base64_image |-> base64_image]

NoResult == ToolResult(NoneStr, NoneStr, NoneStr)

\* an exception: its type, its message, and the operation whose failure was
\* being handled when it was raised ("" when none: Python's __context__)
Exc(type, op, msg, context) ==
    [type |-> type, op |-> op, msg |-> msg, context |-> context]
NoExc == Exc("", "", <<>>, "")
ToolError(msg) == Exc("ToolError", "", msg, "")

\* the failure of the driver call op, raised while the failure of the driver
\* call context was being handled ("" when none); its message names the call
DriverError(op, context) == Exc("DriverError", op, <<op, " failed">>, context)

\* what a dispatch gave its caller: nothing yet, a returned value (a ToolResult,
\* or a 1-tuple holding one), or a raised exception
NoOutcome == [kind |-> "none", tuple |-> FALSE, res |-> NoResult, exc |-> NoExc]
Returned(r) == [kind |-> "returned", tuple |-> FALSE, res |-> r, exc |-> NoExc]
ReturnedTuple(r) == [kind |-> "returned", tuple |-> TRUE, res |-> r, exc |-> NoExc]
Raised(e) == [kind |-> "raised", tuple |-> FALSE, res |-> NoResult, exc |-> e]

----------------------------------------------------------------------------
(* Key Mapper *)

xdotool_to_playwright_key_map ==
    [k \in {"A","B","C","D","E","F","G","H","I","J","K","L","M","N","O","P",
            "Q","R","S","T","U","V","W","X","Y","Z"} |-> <<"Key", k>>]
    @@ [k \in {"1","2","3","4","5","6","7","8","9","0"} |-> <<"Digit", k>>]
    @@ ( "Return" :> <<"Enter">> @@ "Escape" :> <<"Escape">>
      @@ "BackSpace" :> <<"Backspace">> @@ "Tab" :> <<"Tab">>
      @@ "space" :> <<"Space">> @@ "minus" :> <<"Minus">>
      @@ "equal" :> <<"Equal">> @@ "bracketleft" :> <<"BracketLeft">>
      @@ "bracketright" :> <<"BracketRight">> @@ "backslash" :> <<"Backslash">>
      @@ "semicolon" :> <<"Semicolon">> @@ "apostrophe" :> <<"Quote">>
      @@ "grave" :> <<"Backquote">> @@ "comma" :> <<"Comma">>
      @@ "period" :> <<"Period">> @@ "slash" :> <<"Slash">>
      @@ "Shift_L" :> <<"ShiftLeft">> @@ "Shift_R" :> <<"ShiftRight">>
      @@ "Control_L" :> <<"ControlLeft">> @@ "Control_R" :> <<"ControlRight">>
      @@ "Alt_L" :> <<"AltLeft">> @@ "Alt_R" :> <<"AltRight">>
      @@ "Meta_L" :> <<"MetaLeft">> @@ "Meta_R" :> <<"MetaRight">>
      @@ "Shift" :> <<"ShiftLeft">> @@ "Control" :> <<"ControlLeft">>
      @@ "Alt" :> <<"AltLeft">> @@ "Meta" :> <<"MetaLeft">>
      @@ "Left" :> <<"ArrowLeft">> @@ "Up" :> <<"ArrowUp">>
      @@ "Right" :> <<"ArrowRight">> @@ "Down" :> <<"ArrowDown">>
      @@ "Insert" :> <<"Insert">> @@ "Delete" :> <<"Delete">>
      @@ "Home" :> <<"Home">> @@ "End" :> <<"End">>
      @@ "Page_Up" :> <<"PageUp">> @@ "Page_Down" :> <<"PageDown">>
      @@ "Caps_Lock" :> <<"CapsLock">> @@ "Num_Lock" :> <<"NumLock">>
      @@ "Print" :> <<"PrintScreen">> @@ "Scroll_Lock" :> <<"ScrollLock">> )

KeyNameUnmapped(text) == <<text>>

\* xdotool_to_playwright_key_map.get(text, text); a key name is the sequence
\* of the pieces it is spelled from ("KeyA" is <<"Key", "A">>)
map_xdotool_key_to_playwright_key(text) ==
    IF text \in DOMAIN xdotool_to_playwright_key_map
    THEN xdotool_to_playwright_key_map[text]
    ELSE <<text>>

----------------------------------------------------------------------------
(* Action Dispatcher: ComputerTool.__call__ *)

Tasks == {1, 2}
\* the callers of a session that awaits each result before its next call
SerialTasks == {1}

TYPING_DELAY_MS == 12

PointerActionsAndLeftClick == {"mouse_move", "left_click_drag", "left_click"}

PointerActions == {"mouse_move", "left_click_drag"}
KeyboardActions == {"key", "type"}
ZeroArgActions == {"left_click", "right_click", "double_click", "middle_click",
                   "screenshot", "cursor_position"}

NoCall == [action |-> PyNone, text |-> PyNone, coordinate |-> PyNone]

NoPointer == [action |-> "", given |-> <<0, 0>>, scaled |-> <<0, 0>>]

\* the driver's pointer when it is not followed, and at the construction
NoPtr == [follow |-> FALSE, x |-> 0, y |-> 0, n |-> 0]
PtrAtOrigin == [follow |-> TRUE, x |-> 0, y |-> 0, n |-> 0]

NoLoc == [dx |-> 0, dy |-> 0, output |-> <<>>, xpath |-> "", pending |-> NoOutcome]

\* one call of the driver (the playwright page): its name, its integer
\* arguments, its string arguments and whether it succeeded
Drv(op, ints, strs, ok) == [op |-> op, ints |-> ints, strs |-> strs, ok |-> ok]

\* the base64 text of a captured screenshot
Image == Str(<<"base64(png)">>)

\* all(isinstance(i, int) for i in coordinate)
AllInts(c) ==
    \A i \in DOMAIN c.elems : c.elems[i].isint

\* all(isinstance(i, int) and i >= 0 for i in coordinate)
AllNonNegativeInts(c) ==
    \A i \in DOMAIN c.elems : c.elems[i].isint /\ c.elems[i].n >= 0

PointerValidationNoTextCheck(a, text, c) ==
    IF c.tag = "none"
    THEN ToolError(<<"coordinate", " is required for ", a.s>>)
    ELSE IF c.tag # "list" \/ Len(c.elems) # 2
    THEN ToolError(<<Repr(c), " must be a tuple of length 2">>)
    ELSE IF ~AllNonNegativeInts(c)
    THEN ToolError(<<Repr(c), " must be a tuple of non-negative ints">>)
    ELSE NoExc

\* the checks of the mouse_move / left_click_drag branch, in the code's order
PointerValidation(a, text, c) ==
    IF c.tag = "none"
    THEN ToolError(<<"coordinate", " is required for ", a.s>>)
    ELSE IF text.tag # "none"
    THEN ToolError(<<"text", " is not accepted for ", a.s>>)
    ELSE IF c.tag # "list" \/ Len(c.elems) # 2
    THEN ToolError(<<Repr(c), " must be a tuple of length 2">>)
    ELSE IF ~AllNonNegativeInts(c)
    THEN ToolError(<<Repr(c), " must be a tuple of non-negative ints">>)
    ELSE NoExc

KeyboardValidationNoStringCheck(a, text, c) ==
    IF text.tag = "none"
    THEN ToolError(<<"text", " is required for ", a.s>>)
    ELSE IF c.tag # "none"
    THEN ToolError(<<"coordinate", " is not accepted for ", a.s>>)
    ELSE NoExc

\* the checks of the key / type branch
KeyboardValidation(a, text, c) ==
    IF text.tag = "none"
    THEN ToolError(<<"text", " is required for ", a.s>>)
    ELSE IF c.tag # "none"
    THEN ToolError(<<"coordinate", " is not accepted for ", a.s>>)
    ELSE IF text.tag # "str"
    THEN ToolError(<<Repr(text), " must be a string">>)
    ELSE NoExc

ZeroArgValidationTextOnly(a, text, c) ==
    IF text.tag # "none"
    THEN ToolError(<<"text", " is not accepted for ", a.s>>)
    ELSE NoExc

\* the checks of the branch of the six actions that take no argument
ZeroArgValidation(a, text, c) ==
    IF text.tag # "none"
    THEN ToolError(<<"text", " is not accepted for ", a.s>>)
    ELSE IF c.tag # "none"
    THEN ToolError(<<"coordinate", " is not accepted for ", a.s>>)
    ELSE NoExc

\* The checks of __call__ in the order the code makes them; NoExc when the
\* call passes them all. A name that is in none of the three branches falls
\* through to the raise that ends __call__.
ValidationError(a, text, c) ==
    IF a.tag = "none"
    THEN ToolError(<<"Computer tool cannot be called with no action">>)
    ELSE IF a.s = ""
    THEN ToolError(<<"Computer tool cannot be called with an empty action">>)
    ELSE IF a.s \in PointerActions THEN PointerValidation(a, text, c)
    ELSE IF a.s \in KeyboardActions THEN KeyboardValidation(a, text, c)
    ELSE IF a.s \in ZeroArgActions THEN ZeroArgValidation(a, text, c)
    ELSE ToolError(<<"Invalid action: \"", a.s, "\"">>)

OutOfBoundsError(x, y) ==
    ToolError(<<"Coordinates ", ToString(x), ", ", ToString(y), " are out of bounds">>)

CursorAfterScalePartial(oldx, oldy, x, y) == <<x, oldy>>

\* self.mouse_x = x; self.mouse_y = y
CursorAfterScale(oldx, oldy, x, y) == <<x, y>>

\* f"X={self.mouse_x}, Y={self.mouse_y}"
CursorPositionOutput(mx, my) == <<"X=", ToString(mx), ", Y=", ToString(my)>>

\* the button of left_click for every click
ButtonAlwaysLeft(a) == IF a = "double_click" THEN "double" ELSE "left"

\* action.split("_")[0]
ButtonOf(a) ==
    CASE a = "left_click" -> "left"
      [] a = "right_click" -> "right"
      [] a = "middle_click" -> "middle"
      [] a = "double_click" -> "double"

(* How a dispatch moves on *)

Goto(t, p, l) ==
    /\ pc' = [pc EXCEPT ![t] = p]
    /\ loc' = [loc EXCEPT ![t] = l]
    /\ UNCHANGED outcome

\* the caller of task t gets o: a returned value or a raised exception
Deliver(t, o) ==
    /\ pc' = [pc EXCEPT ![t] = "idle"]
    /\ outcome' = [outcome EXCEPT ![t] = o]
    /\ loc' = [loc EXCEPT ![t] = NoLoc]

(* PlaywrightTool: the action mapping and the results of its failures *)

\* an action mapping: the keys it has and their values (the value of a key
\* it does not have is not read)
Mapping(keys, type, url, dx, dy, scale) ==
    [keys |-> keys, type |-> type, url |-> url, dx |-> dx, dy |-> dy, scale |-> scale]

\* the dispatch of the task is not one of PlaywrightTool
NoPw == [active |-> FALSE, action |-> Mapping({}, "", "", 0, 0, 0)]

\* class ToolFailure(ToolResult): a result that carries an error only
ToolFailure(error) == ToolResult(NoneStr, error, NoneStr)

\* f"Invalid action: {action}. Valid actions: goto, scroll, zoom"
InvalidActionFailure(a) ==
    ToolFailure(Str(<<"Invalid action: ", "{'type': '", a.type, "', ...}",
                      ". Valid actions: goto, scroll, zoom">>))

\* the message of except Exception as e: in _goto, _scroll and _zoom
FailureText(a) ==
    CASE a.type = "goto" -> <<"Failed to navigate to page ", a.url, ": ">>
      [] a.type = "scroll" -> <<"Failed to scroll to bottom of page", ": ">>
      [] a.type = "zoom" -> <<"Failed to zoom to ", ToString(a.scale), "%", ": ">>

ActionFailureAsOutput(a, e) == ToolResult(Str(FailureText(a) \o e.msg), NoneStr, NoneStr)

\* except Exception as e: return ToolFailure(error=f"Failed to ...: {e}")
ActionFailure(a, e) == ToolFailure(Str(FailureText(a) \o e.msg))

\* ToolResult(output=None, error=f"Failed to press key: {text}: {e}") with
\* output="" in the place of output=None
KeyFailureEmptyOutput(text, e) ==
    ToolResult(Str(<<>>), Str(<<"Failed to press key: ", text.s, ": ">> \o e.msg), NoneStr)

\* error=f"Failed to press key: {text}" with the cause left out
KeyFailureNoCause(text, e) ==
    ToolResult(NoneStr, Str(<<"Failed to press key: ", text.s>>), NoneStr)

\* except Exception as e: of the key branch
KeyFailure(text, e) ==
    ToolResult(NoneStr, Str(<<"Failed to press key: ", text.s, ": ">> \o e.msg), NoneStr)

CompleteNoFinally(t, o) ==
    IF pw[t].active
    THEN Deliver(t, IF o.kind = "raised" THEN Returned(ActionFailure(pw[t].action, o.exc)) ELSE o)
    ELSE IF call[t].action.s = "left_click_drag" /\ o.kind = "returned"
    THEN Goto(t, "up", [loc[t] EXCEPT !.pending = o])
    ELSE IF call[t].action.s = "key" /\ o.kind = "raised"
    THEN Deliver(t, Returned(KeyFailure(call[t].text, o.exc)))
    ELSE Deliver(t, o)

\* Complete with no except Exception around the awaits of key, _goto,
\* _scroll and _zoom
CompleteNoExcept(t, o) ==
    IF call[t].action.s = "left_click_drag"
    THEN Goto(t, "up", [loc[t] EXCEPT !.pending = o])
    ELSE Deliver(t, o)

\* A statement after the first await of task t ends with o (a return or a
\* raise). In left_click_drag it is inside try ... finally, so mouse.up runs
\* first; in key it is inside try ... except Exception, which turns a raise
\* into a returned error; anywhere else in ComputerTool o goes to the caller.
\* In _goto, _scroll and _zoom of PlaywrightTool it is inside try ... except
\* Exception, which turns a raise into a returned ToolFailure.
Complete(t, o) ==
    IF pw[t].active
    THEN Deliver(t, IF o.kind = "raised" THEN Returned(ActionFailure(pw[t].action, o.exc)) ELSE o)
    ELSE IF call[t].action.s = "left_click_drag"
    THEN Goto(t, "up", [loc[t] EXCEPT !.pending = o])
    ELSE IF call[t].action.s = "key" /\ o.kind = "raised"
    THEN Deliver(t, Returned(KeyFailure(call[t].text, o.exc)))
    ELSE Deliver(t, o)

Logged(t, e) == log' = [log EXCEPT ![t] = Append(@, e)]

----------------------------------------------------------------------------
(* The inputs of the model *)

\* WIDTH x HEIGHT of the environment: 16:9 with the FWXGA target active, and
\* 4:3 with XGA matching the ratio but no narrower than the display (the
\* viewport of example.py)
Resolutions == { <<1920, 1080>>, <<1024, 768>> }

\* int(os.getenv("WIDTH") or 0), int(os.getenv("HEIGHT") or 0)
EnvSizes == Resolutions \cup { <<0, 0>>, <<1024, 0>>, <<0, 768>> }

ActionInputs ==
    {PyNone, PyStr(""), PyStr("scroll")} \cup {PyStr(a) : a \in Action}

\* a key of the map, a key that is not in it, and a value that is no string
TextInputs == {PyNone, PyStr("Return"), PyStr("F5"), PyInt(5)}

\* agent-space pairs for a W x H display: inside, on the edge, past the edge
PairInputs(W, H) ==
    { <<0, 0>>, <<100, 100>>, <<100, 50>>, <<W, H>>, <<W + 1, 0>>, <<0, H + 1>> }

MalformedCoordinates ==
    { PyTuple(<<I(1), I(2)>>),
      PyList(<<I(1), I(2), I(3)>>),
      PyList(<<I(-1), I(5)>>),
      PyList(<<I(5), NotAnInt>>) }

CoordinateInputs(W, H) ==
    {PyNone} \cup MalformedCoordinates
    \cup { PyList(<<I(p[1]), I(p[2])>>) : p \in PairInputs(W, H) }

\* The calls made: every action with every coordinate and no text, and every
\* action with every text and no, a well-formed or a malformed coordinate.
CallInputs(W, H) ==
    { <<a, PyNone, c>> : a \in ActionInputs, c \in CoordinateInputs(W, H) }
    \cup { <<a, text, c>> : a \in ActionInputs, text \in TextInputs,
             c \in {PyNone, PyList(<<I(100), I(100)>>), PyTuple(<<I(1), I(2)>>)} }

\* what page.evaluate gives for the element under the cursor: None or an xpath
Xpaths == {"None", "html[1]/body[1]/a[1]"}

\* the action mappings given to PlaywrightTool: the three types with their
\* keys, each type with a key missing, no type, and a type that is not one
MappingInputs ==
    { Mapping({"type", "url"}, "goto", "https://a.example", 0, 0, 0),
      Mapping({"type"}, "goto", "", 0, 0, 0),
      Mapping({"type", "dx", "dy"}, "scroll", "", 0, 500, 0),
      Mapping({"type", "dx"}, "scroll", "", 0, 0, 0),
      Mapping({"type", "scale"}, "zoom", "", 0, 0, 150),
      Mapping({"type"}, "zoom", "", 0, 0, 0),
      Mapping({"type"}, "click", "", 0, 0, 0),
      Mapping({}, "", "", 0, 0, 0),
      Mapping({"url"}, "", "https://a.example", 0, 0, 0) }

----------------------------------------------------------------------------
(* Construction *)

\* no direct call of scale_coordinates was made
NoScale == [source |-> "", x |-> 0, y |-> 0, target |-> "", res |-> Scaled(0, 0),
            back |-> Scaled(0, 0), stage |-> "none"]

Init ==
    /\ constructed = "no"
    /\ width = 0
    /\ height = 0
    /\ mouse_x = 0
    /\ mouse_y = 0
    /\ pc = [t \in Tasks |-> "idle"]
    /\ call = [t \in Tasks |-> NoCall]
    /\ pw = [t \in Tasks |-> NoPw]
    /\ loc = [t \in Tasks |-> NoLoc]
    /\ outcome = [t \in Tasks |-> NoOutcome]
    /\ log = [t \in Tasks |-> <<>>]
    /\ held = FALSE
    /\ lastPointer = NoPointer
    /\ sc = NoScale
    /\ ptr = NoPtr

\* assert self.width or self.height
SizeIsSetEither(w, h) == w # 0 \/ h # 0

\* assert self.width and self.height, "WIDTH, HEIGHT must be set"
SizeIsSet(w, h) == w # 0 /\ h # 0

\* ComputerTool.__init__ with WIDTH = w and HEIGHT = h
Construct(w, h) ==
    /\ constructed = "no"
    /\ width' = w
    /\ height' = h
    /\ mouse_x' = 0
    /\ mouse_y' = 0
    /\ constructed' = IF SizeIsSet(w, h) THEN "ok" ELSE "failed"
    /\ UNCHANGED <<pc, call, pw, loc, outcome, log, held, lastPointer, sc, ptr>>

----------------------------------------------------------------------------
(* A dispatch up to its first await *)

DeltaAbsolute(x, mouse) == x

\* dx = x - self.mouse_x, dy = y - self.mouse_y
Delta(x, mouse) == x - mouse

\* mouse_move and left_click_drag after validation: the scaling step, the
\* delta and the cursor update, with no await between them
DispatchPointer(t, a, c) ==
    LET x == c.elems[1].n
        y == c.elems[2].n
        r == scale_coordinates(API, x, y, width, height)
        m == CursorAfterScale(mouse_x, mouse_y, r.x, r.y)
    IN  IF r.raised
        THEN /\ Deliver(t, Raised(OutOfBoundsError(x, y)))
             /\ UNCHANGED <<mouse_x, mouse_y, lastPointer, ptr>>
        ELSE /\ mouse_x' = m[1]
             /\ mouse_y' = m[2]
             /\ ptr' = IF ptr.follow THEN [ptr EXCEPT !.n = @ + 1] ELSE ptr
             /\ lastPointer' = [action |-> a.s, given |-> <<x, y>>, scaled |-> <<r.x, r.y>>]
             /\ pc' = [pc EXCEPT ![t] = IF a.s = "mouse_move" THEN "move" ELSE "down"]
             /\ loc' = [loc EXCEPT ![t] =
                          [NoLoc EXCEPT !.dx = Delta(r.x, mouse_x),
                                        !.dy = Delta(r.y, mouse_y)]]
             /\ outcome' = [outcome EXCEPT ![t] = NoOutcome]

DispatchValid(t, a, text, c) ==
    IF a.s \in PointerActions
    THEN DispatchPointer(t, a, c)
    ELSE /\ UNCHANGED <<mouse_x, mouse_y, lastPointer, ptr>>
         /\ IF a.s = "cursor_position"
            THEN Deliver(t, Returned(ToolResult(
                     Str(CursorPositionOutput(mouse_x, mouse_y)), NoneStr, NoneStr)))
            ELSE /\ pc' = [pc EXCEPT ![t] =
                            CASE a.s = "key" -> "press"
                              [] a.s = "type" -> "type"
                              [] a.s = "screenshot" -> "shot1"
                              [] OTHER -> "evaluate"]
                 /\ loc' = [loc EXCEPT ![t] = NoLoc]
                 /\ outcome' = [outcome EXCEPT ![t] = NoOutcome]

\* __call__(action=a, text=text, coordinate=c) of task t, up to its first
\* await, its return or its raise
Dispatch(t, a, text, c) ==
    /\ constructed = "ok"
    /\ pc[t] = "idle"
    /\ call' = [call EXCEPT ![t] = [action |-> a, text |-> text, coordinate |-> c]]
    /\ pw' = [pw EXCEPT ![t] = NoPw]
    /\ log' = [log EXCEPT ![t] = <<>>]
    /\ LET err == ValidationError(a, text, c) IN
       IF err # NoExc
       THEN /\ Deliver(t, Raised(err))
            /\ UNCHANGED <<mouse_x, mouse_y, lastPointer, ptr>>
       ELSE DispatchValid(t, a, text, c)
    /\ UNCHANGED <<constructed, width, height, held, sc>>

----------------------------------------------------------------------------
(* The awaits of a dispatch: each driver call succeeds (ok) or raises *)

StepFrame == UNCHANGED <<constructed, width, height, mouse_x, mouse_y, call, pw,
                         lastPointer, sc>>

\* the driver's pointer stays where it is
PtrFrame == UNCHANGED ptr

\* the text with the two coordinates in the other order
MovedOutputSwapped(a, mx, my) ==
    IF a = "mouse_move"
    THEN <<"Moved mouse to ", ToString(my), ", ", ToString(mx)>>
    ELSE <<"Dragged mouse to ", ToString(my), ", ", ToString(mx)>>

\* f"Moved mouse to {self.mouse_x}, {self.mouse_y}" and
\* f"Dragged mouse to {self.mouse_x}, {self.mouse_y}"
MovedOutput(a, mx, my) ==
    IF a = "mouse_move"
    THEN <<"Moved mouse to ", ToString(mx), ", ", ToString(my)>>
    ELSE <<"Dragged mouse to ", ToString(mx), ", ", ToString(my)>>

\* await self.page.mouse.down() placed before the try statement: when it
\* raises, the finally clause does not run
MouseDownBeforeTry(t, ok) ==
    /\ pc[t] = "down"
    /\ Logged(t, Drv("mouse.down", <<>>, <<>>, ok))
    /\ held' = (held \/ ok)
    /\ IF ok
       THEN Goto(t, "move", loc[t])
       ELSE Deliver(t, Raised(DriverError("mouse.down", "")))
    /\ StepFrame
    /\ PtrFrame

\* await self.page.mouse.down() of left_click_drag
MouseDown(t, ok) ==
    /\ pc[t] = "down"
    /\ Logged(t, Drv("mouse.down", <<>>, <<>>, ok))
    /\ held' = (held \/ ok)
    /\ IF ok
       THEN Goto(t, "move", loc[t])
       ELSE Complete(t, Raised(DriverError("mouse.down", "")))
    /\ StepFrame
    /\ PtrFrame

\* await self.page.mouse.move(dx, dy) of mouse_move and of left_click_drag;
\* the output text is formatted before the screenshot is awaited
MouseMove(t, ok) ==
    /\ pc[t] = "move"
    /\ Logged(t, Drv("mouse.move", <<loc[t].dx, loc[t].dy>>, <<>>, ok))
    /\ IF ok
       THEN Goto(t, "shot1",
                 [loc[t] EXCEPT !.output = MovedOutput(call[t].action.s, mouse_x, mouse_y)])
       ELSE Complete(t, Raised(DriverError("mouse.move", "")))
    /\ ptr' = IF ptr.follow /\ ok
              THEN [ptr EXCEPT !.x = @ + loc[t].dx, !.y = @ + loc[t].dy]
              ELSE ptr
    /\ UNCHANGED held
    /\ StepFrame

\* finally: await self.page.mouse.up() of left_click_drag. When it raises, its
\* error replaces the pending return or raise, which becomes its context.
MouseUp(t, ok) ==
    /\ pc[t] = "up"
    /\ Logged(t, Drv("mouse.up", <<>>, <<>>, ok))
    /\ held' = (held /\ ~ok)
    /\ IF ok
       THEN Deliver(t, loc[t].pending)
       ELSE Deliver(t, Raised(DriverError("mouse.up", loc[t].pending.exc.op)))
    /\ StepFrame
    /\ PtrFrame

KeyNameOf(text) == map_xdotool_key_to_playwright_key(text)

\* await self.page.keyboard.press(self.map_xdotool_key_to_playwright_key(text))
KeyboardPress(t, ok) ==
    /\ pc[t] = "press"
    /\ Logged(t, Drv("keyboard.press", <<>>, KeyNameOf(call[t].text.s), ok))
    /\ IF ok
       THEN Goto(t, "shot1",
                 [loc[t] EXCEPT !.output = <<"Pressed key: ", call[t].text.s>>])
       ELSE Complete(t, Raised(DriverError("keyboard.press", "")))
    /\ UNCHANGED held
    /\ StepFrame
    /\ PtrFrame

\* await self.page.keyboard.type(text, delay=TYPING_DELAY_MS)
KeyboardType(t, ok) ==
    /\ pc[t] = "type"
    /\ Logged(t, Drv("keyboard.type", <<TYPING_DELAY_MS>>, <<call[t].text.s>>, ok))
    /\ IF ok
       THEN Goto(t, "shot1", [loc[t] EXCEPT !.output = <<"Typed: ", call[t].text.s>>])
       ELSE Complete(t, Raised(DriverError("keyboard.type", "")))
    /\ UNCHANGED held
    /\ StepFrame
    /\ PtrFrame

\* xpath = await self.page.evaluate(..., [self.mouse_x, self.mouse_y])
Evaluate(t, ok, xpath) ==
    /\ pc[t] = "evaluate"
    /\ Logged(t, Drv("evaluate", <<mouse_x, mouse_y>>, <<>>, ok))
    /\ IF ok
       THEN Goto(t, IF ButtonOf(call[t].action.s) = "double" THEN "dblclick" ELSE "click",
                 [loc[t] EXCEPT !.xpath = xpath])
       ELSE Complete(t, Raised(DriverError("evaluate", "")))
    /\ UNCHANGED held
    /\ StepFrame
    /\ PtrFrame

ClickedOutput(button, mx, my, xpath) ==
    <<"Clicked ", button, " button at ", ToString(mx), ", ", ToString(my),
      ". Xpath = ", xpath>>

\* await self.page.mouse.click(self.mouse_x, self.mouse_y, button=button)
MouseClick(t, ok) ==
    /\ pc[t] = "click"
    /\ Logged(t, Drv("mouse.click", <<mouse_x, mouse_y>>,
                     <<ButtonOf(call[t].action.s)>>, ok))
    /\ IF ok
       THEN Goto(t, "shot1",
                 [loc[t] EXCEPT !.output =
                     ClickedOutput(ButtonOf(call[t].action.s), mouse_x, mouse_y, loc[t].xpath)])
       ELSE Complete(t, Raised(DriverError("mouse.click", "")))
    /\ UNCHANGED held
    /\ StepFrame
    /\ PtrFrame

\* await self.page.mouse.dblclick(self.mouse_x, self.mouse_y)
MouseDblClick(t, ok) ==
    /\ pc[t] = "dblclick"
    /\ Logged(t, Drv("mouse.dblclick", <<mouse_x, mouse_y>>, <<>>, ok))
    /\ IF ok
       THEN Goto(t, "shot1",
                 [loc[t] EXCEPT !.output =
                     ClickedOutput(ButtonOf(call[t].action.s), mouse_x, mouse_y, loc[t].xpath)])
       ELSE Complete(t, Raised(DriverError("mouse.dblclick", "")))
    /\ UNCHANGED held
    /\ StepFrame
    /\ PtrFrame

\* the results with base64_image= left out
ShotResultNoImage(t) ==
    IF call[t].action.s = "screenshot"
    THEN ReturnedTuple(ToolResult(Str(<<"Taken screenshot">>), Str(<<>>), NoneStr))
    ELSE Returned(ToolResult(Str(loc[t].output), NoneStr, NoneStr))

\* what the action returns once its screenshot is there; the screenshot
\* action's return statement ends in a comma, so it returns a 1-tuple
ShotResult(t) ==
    IF call[t].action.s = "screenshot"
    THEN ReturnedTuple(ToolResult(Str(<<"Taken screenshot">>), Str(<<>>), Image))
    ELSE Returned(ToolResult(Str(loc[t].output), NoneStr, Image))

\* take_screenshot: try: screenshot = await page.screenshot()
Screenshot(t, ok) ==
    /\ pc[t] = "shot1"
    /\ Logged(t, Drv("screenshot", <<>>, <<>>, ok))
    /\ IF ok
       THEN Complete(t, ShotResult(t))
       ELSE Goto(t, "shot2", loc[t])
    /\ UNCHANGED held
    /\ StepFrame
    /\ PtrFrame

\* take_screenshot: except: screenshot = await page.screenshot(timeout=0)
ScreenshotRetry(t, ok) ==
    /\ pc[t] = "shot2"
    /\ Logged(t, Drv("screenshot", <<0>>, <<>>, ok))
    /\ IF ok
       THEN Complete(t, ShotResult(t))
       ELSE Complete(t, Raised(DriverError("screenshot", "screenshot")))
    /\ UNCHANGED held
    /\ StepFrame
    /\ PtrFrame

----------------------------------------------------------------------------
(* PlaywrightTool.__call__ and the awaits of _goto, _scroll and _zoom *)

\* the keys __call__ reads from a mapping of the type, in the order it reads them
RequiredKeys(type) ==
    CASE type = "goto" -> <<"url">>
      [] type = "scroll" -> <<"dx", "dy">>
      [] type = "zoom" -> <<"scale">>
      [] OTHER -> <<>>

\* the first key of the type that the mapping does not have, "" when it has all
MissingKey(a) ==
    LET ks == RequiredKeys(a.type)
        absent == {i \in 1..Len(ks) : ks[i] \notin a.keys}
    IN  IF absent = {} THEN ""
        ELSE ks[CHOOSE i \in absent : \A j \in absent : i <= j]

\* _action["url"] of a mapping without the key
KeyError(key) == Exc("KeyError", "", <<"'", key, "'">>, "")

\* action["type"] of a mapping with no type, read with no check before it
MissingTypeUnchecked == Raised(KeyError("type"))

\* if "type" not in action: return ToolFailure(error="Action must have a type")
MissingType == Returned(ToolFailure(Str(<<"Action must have a type">>)))

\* __call__(action=a) of PlaywrightTool for task t, up to its first await,
\* its return or its raise. ToolCollection(ComputerTool(page),
\* PlaywrightTool(page)) constructs ComputerTool first.
PlaywrightCall(t, a) ==
    /\ constructed = "ok"
    /\ pc[t] = "idle"
    /\ pw' = [pw EXCEPT ![t] = [active |-> TRUE, action |-> a]]
    /\ call' = [call EXCEPT ![t] = NoCall]
    /\ log' = [log EXCEPT ![t] = <<>>]
    /\ IF "type" \notin a.keys
       THEN Deliver(t, MissingType)
       ELSE IF a.type \notin {"goto", "scroll", "zoom"}
       THEN Deliver(t, Returned(InvalidActionFailure(a)))
       ELSE IF MissingKey(a) # ""
       THEN Deliver(t, Raised(KeyError(MissingKey(a))))
       ELSE /\ pc' = [pc EXCEPT ![t] =
                       CASE a.type = "goto" -> "goto"
                         [] a.type = "scroll" -> "wheel"
                         [] a.type = "zoom" -> "zoom"]
            /\ loc' = [loc EXCEPT ![t] = NoLoc]
            /\ outcome' = [outcome EXCEPT ![t] = NoOutcome]
    /\ UNCHANGED <<constructed, width, height, mouse_x, mouse_y, held, lastPointer, sc,
                   ptr>>

\* _goto: await self.page.goto(url)
PageGoto(t, ok) ==
    /\ pc[t] = "goto"
    /\ Logged(t, Drv("goto", <<>>, <<pw[t].action.url>>, ok))
    /\ IF ok
       THEN Goto(t, "shot1",
                 [loc[t] EXCEPT !.output = <<"Navigated to page ", pw[t].action.url>>])
       ELSE Complete(t, Raised(DriverError("goto", "")))
    /\ UNCHANGED held
    /\ StepFrame
    /\ PtrFrame

\* _scroll: await self.page.mouse.wheel(dx, dy)
MouseWheel(t, ok) ==
    /\ pc[t] = "wheel"
    /\ Logged(t, Drv("mouse.wheel", <<pw[t].action.dx, pw[t].action.dy>>, <<>>, ok))
    /\ IF ok
       THEN Goto(t, "shot1",
                 [loc[t] EXCEPT !.output =
                     <<"Scrolled by ", ToString(pw[t].action.dx), " in x and ",
                       ToString(pw[t].action.dy), " in y">>])
       ELSE Complete(t, Raised(DriverError("mouse.wheel", "")))
    /\ UNCHANGED held
    /\ StepFrame
    /\ PtrFrame

\* _zoom: await self.page.evaluate(f"document.body.style.zoom = '{scale}%'")
PageZoom(t, ok) ==
    /\ pc[t] = "zoom"
    /\ Logged(t, Drv("evaluate", <<>>,
                     <<"document.body.style.zoom = '", ToString(pw[t].action.scale), "%'">>, ok))
    /\ IF ok
       THEN Goto(t, "shot1",
                 [loc[t] EXCEPT !.output = <<"Zoomed to ", ToString(pw[t].action.scale), "%">>])
       ELSE Complete(t, Raised(DriverError("evaluate", "")))
    /\ UNCHANGED held
    /\ StepFrame
    /\ PtrFrame

----------------------------------------------------------------------------

Step(t) ==
    \/ \E ok \in BOOLEAN : PageGoto(t, ok)
    \/ \E ok \in BOOLEAN : MouseWheel(t, ok)
    \/ \E ok \in BOOLEAN : PageZoom(t, ok)
    \/ \E ok \in BOOLEAN : MouseDown(t, ok)
    \/ \E ok \in BOOLEAN : MouseMove(t, ok)
    \/ \E ok \in BOOLEAN : MouseUp(t, ok)
    \/ \E ok \in BOOLEAN : KeyboardPress(t, ok)
    \/ \E ok \in BOOLEAN : KeyboardType(t, ok)
    \/ \E ok \in BOOLEAN, xpath \in Xpaths : Evaluate(t, ok, xpath)
    \/ \E ok \in BOOLEAN : MouseClick(t, ok)
    \/ \E ok \in BOOLEAN : MouseDblClick(t, ok)
    \/ \E ok \in BOOLEAN : Screenshot(t, ok)
    \/ \E ok \in BOOLEAN : ScreenshotRetry(t, ok)

DispatchAny(t) ==
    \E i \in CallInputs(width, height) : Dispatch(t, i[1], i[2], i[3])

PlaywrightCallAny(t) ==
    \E a \in MappingInputs : PlaywrightCall(t, a)

\* One session: the tool is constructed once, and the caller awaits the
\* result of each dispatch before it makes the next.
Next ==
    \/ \E r \in EnvSizes : Construct(r[1], r[2])
    \/ \E t \in SerialTasks : DispatchAny(t)
    \/ \E t \in SerialTasks : PlaywrightCallAny(t)
    \/ \E t \in SerialTasks : Step(t)

Spec == Init /\ [][Next]_vars

----------------------------------------------------------------------------
(* Sessions of pointer actions in which the driver's pointer is followed:   *)
(* one whose caller awaits each result, and one in which two callers        *)
(* dispatch on the same ComputerTool and interleave at the awaits           *)

\* how many pointer dispatches of a session pass validation
MaxPointerDispatches == 2

PointerResolutions == { <<1920, 1080>>, <<1024, 768>> }

PointerPairs == { <<0, 0>>, <<100, 100>>, <<100, 50>> }

PointerCalls ==
    { <<PyStr(a), PyNone, PyList(<<I(p[1]), I(p[2])>>)>> :
        a \in {"mouse_move", "left_click_drag"}, p \in PointerPairs }

InitPointer ==
    /\ constructed = "no"
    /\ width = 0
    /\ height = 0
    /\ mouse_x = 0
    /\ mouse_y = 0
    /\ pc = [t \in Tasks |-> "idle"]
    /\ call = [t \in Tasks |-> NoCall]
    /\ pw = [t \in Tasks |-> NoPw]
    /\ loc = [t \in Tasks |-> NoLoc]
    /\ outcome = [t \in Tasks |-> NoOutcome]
    /\ log = [t \in Tasks |-> <<>>]
    /\ held = FALSE
    /\ lastPointer = NoPointer
    /\ sc = NoScale
    /\ ptr = PtrAtOrigin

PointerDispatchAny(t) ==
    /\ ptr.n < MaxPointerDispatches
    /\ \E i \in PointerCalls : Dispatch(t, i[1], i[2], i[3])

PointerStep(t) ==
    \/ \E ok \in BOOLEAN : MouseDown(t, ok)
    \/ \E ok \in BOOLEAN : MouseMove(t, ok)
    \/ \E ok \in BOOLEAN : MouseUp(t, ok)
    \/ \E ok \in BOOLEAN : Screenshot(t, ok)
    \/ \E ok \in BOOLEAN : ScreenshotRetry(t, ok)

\* the caller awaits the result of each dispatch before it makes the next
NextPointer ==
    \/ \E r \in PointerResolutions : Construct(r[1], r[2])
    \/ \E t \in SerialTasks : PointerDispatchAny(t)
    \/ \E t \in SerialTasks : PointerStep(t)

SpecPointer == InitPointer /\ [][NextPointer]_vars

\* two callers: a dispatch of one can start while the dispatch of the other
\* is suspended at an await
NextOverlap ==
    \/ \E r \in PointerResolutions : Construct(r[1], r[2])
    \/ \E t \in Tasks : PointerDispatchAny(t)
    \/ \E t \in Tasks : PointerStep(t)

SpecOverlap == InitPointer /\ [][NextOverlap]_vars

----------------------------------------------------------------------------
(* scale_coordinates called on its own: one call per behaviour, and for a   *)
(* call with source API the call back with source COMPUTER on its result    *)

\* resolutions with an active target (FWXGA; XGA with a display less high
\* than the target; WXGA), resolutions whose ratio matches an entry that is
\* no narrower than the display, and resolutions whose ratio matches no entry
ScaleResolutions ==
    { <<1920, 1080>>, <<1025, 758>>, <<1600, 1000>>,
      <<1024, 768>>, <<800, 600>>, <<1280, 800>>,
      <<1000, 1000>>, <<1400, 1000>> }

\* every x of the display and CoordSlack past it with a few y, and every y
\* with a few x
ScaleInputs(W, H) ==
    { <<x, y>> : x \in 0 .. (W + CoordSlack), y \in {0, H, H + 1} }
    \cup { <<x, y>> : x \in {0, W, W + 1}, y \in 0 .. (H + CoordSlack) }

TargetName(i) == IF i = 0 THEN "" ELSE MAX_SCALING_TARGETS[i].name

InitScale ==
    /\ constructed = "ok"
    /\ \E r \in ScaleResolutions : width = r[1] /\ height = r[2]
    /\ mouse_x = 0
    /\ mouse_y = 0
    /\ pc = [t \in Tasks |-> "idle"]
    /\ call = [t \in Tasks |-> NoCall]
    /\ pw = [t \in Tasks |-> NoPw]
    /\ loc = [t \in Tasks |-> NoLoc]
    /\ outcome = [t \in Tasks |-> NoOutcome]
    /\ log = [t \in Tasks |-> <<>>]
    /\ held = FALSE
    /\ lastPointer = NoPointer
    /\ ptr = NoPtr
    /\ \E source \in ScalingSource, p \in ScaleInputs(width, height) :
          sc = [NoScale EXCEPT !.source = source, !.x = p[1], !.y = p[2],
                               !.stage = "input"]

\* self.scale_coordinates(sc.source, sc.x, sc.y)
ScaleCall ==
    /\ sc.stage = "input"
    /\ sc' = [sc EXCEPT
                !.res = scale_coordinates(sc.source, sc.x, sc.y, width, height),
                !.target = TargetName(TargetDimension(width, height)),
                !.stage = "scaled"]
    /\ UNCHANGED toolVars

\* self.scale_coordinates(ScalingSource.COMPUTER, x, y) on the pair the call
\* with source API returned
ScaleBack ==
    /\ sc.stage = "scaled"
    /\ sc.source = API
    /\ ~sc.res.raised
    /\ sc' = [sc EXCEPT
                !.back = scale_coordinates(COMPUTER, sc.res.x, sc.res.y, width, height),
                !.stage = "back"]
    /\ UNCHANGED toolVars

NextScale == ScaleCall \/ ScaleBack

SpecScale == InitScale /\ [][NextScale]_vars

----------------------------------------------------------------------------
(* What the claims are stated with *)

Entries == 1 .. Len(MAX_SCALING_TARGETS)

\* |d.width / d.height - W / H| < 0.02
RatioWithinTolerance(d, W, H) ==
    100 * Abs(d.width * H - W * d.height) < 2 * d.height * H

\* the first entry of the table, in its order, whose ratio is within the
\* tolerance of W / H; 0 when there is none
FirstRatioMatch(W, H) ==
    IF \E i \in Entries : RatioWithinTolerance(MAX_SCALING_TARGETS[i], W, H)
    THEN CHOOSE i \in Entries :
            /\ RatioWithinTolerance(MAX_SCALING_TARGETS[i], W, H)
            /\ \A j \in Entries :
                  j < i => ~RatioWithinTolerance(MAX_SCALING_TARGETS[j], W, H)
    ELSE 0

\* the first ratio match when it is narrower than the display, else none (0)
ExpectedTarget(W, H) ==
    LET f == FirstRatioMatch(W, H)
    IN  IF f # 0 /\ MAX_SCALING_TARGETS[f].width < W THEN f ELSE 0

HasActiveTarget(W, H) == ExpectedTarget(W, H) # 0

\* the ratio of W / H is more than 0.02 away from the ratio of every entry
NoRatioMatch(W, H) ==
    \A i \in Entries :
        LET d == MAX_SCALING_TARGETS[i]
        IN  100 * Abs(d.width * H - W * d.height) > 2 * d.height * H

Mentions(msg, word) == \E i \in DOMAIN msg : msg[i] = word

CountOf(t, op) == Cardinality({i \in DOMAIN log[t] : log[t][i].op = op})

CursorPositionReturned(t) ==
    /\ call[t] = [action |-> PyStr("cursor_position"), text |-> PyNone,
                  coordinate |-> PyNone]
    /\ outcome[t].kind = "returned"

----------------------------------------------------------------------------
(* C1: under one-at-a-time dispatch the cursor is always the pair the       *)
(* scaling step of the last pointer action that passed validation and the   *)
(* bounds check returned ((0,0) when there was none), both coordinates from *)
(* that one action, and a cursor_position call reports exactly that pair.   *)
C1_CursorIsLastScaled ==
    /\ <<mouse_x, mouse_y>> = lastPointer.scaled
    /\ \A t \in Tasks :
          CursorPositionReturned(t) =>
             outcome[t].res.output =
                Str(<<"X=", ToString(lastPointer.scaled[1]),
                      ", Y=", ToString(lastPointer.scaled[2])>>)

\* a cursor_position answered after a pointer action whose scaled x and y differ
C1_Witness ==
    \E t \in Tasks :
        /\ CursorPositionReturned(t)
        /\ lastPointer.action = "left_click_drag"
        /\ lastPointer.given = <<100, 50>>
        /\ lastPointer.scaled[1] # lastPointer.scaled[2]

MoveFailed(t) ==
    /\ call[t].action = PyStr("left_click_drag")
    /\ \E i \in DOMAIN log[t] : log[t][i].op = "mouse.move" /\ ~log[t][i].ok

(* C2: when the move of a validated left_click_drag fails, mouse.up is      *)
(* called exactly once, before anything reaches the caller, and the caller  *)
(* then gets a raised error, never a returned result: the move's failure    *)
(* itself when the release worked, and the release's failure with the       *)
(* move's failure as its context when the release failed too.               *)
C2_ReleaseOnceThenRaise ==
    \A t \in Tasks :
        MoveFailed(t) =>
           \/ /\ pc[t] = "up"
              /\ outcome[t].kind = "none"
              /\ CountOf(t, "mouse.up") = 0
           \/ /\ pc[t] = "idle"
              /\ CountOf(t, "mouse.up") = 1
              /\ log[t][Len(log[t])].op = "mouse.up"
              /\ outcome[t].kind = "raised"
              /\ IF log[t][Len(log[t])].ok
                 THEN outcome[t].exc = DriverError("mouse.move", "")
                 ELSE /\ outcome[t].exc.op = "mouse.up"
                      /\ outcome[t].exc.context = "mouse.move"

\* a drag whose move failed, whose button was released, and whose caller got
\* the move's failure
C2_Witness ==
    \E t \in Tasks :
        /\ MoveFailed(t)
        /\ pc[t] = "idle"
        /\ CountOf(t, "mouse.up") = 1
        /\ outcome[t].kind = "raised"
        /\ outcome[t].exc.op = "mouse.move"

ProtocolErrorRaised(o) == o.kind = "raised" /\ o.exc.type = "ToolError"

\* a step in which a dispatch of task t ended in a protocol error
ProtocolErrorStep(t) ==
    /\ pc[t] = "idle"
    /\ pc'[t] = "idle"
    /\ ProtocolErrorRaised(outcome'[t])

(* C3: a dispatch that fails with a protocol error (a ToolError) has made   *)
(* no driver call and leaves the cursor as it was; mouse_move called with   *)
(* both text and coordinate is such a dispatch.                             *)
C3_ProtocolErrorBeforeSideEffect ==
    /\ [](\A t \in Tasks :
            /\ ProtocolErrorRaised(outcome[t]) => log[t] = <<>>
            /\ ( /\ call[t].action = PyStr("mouse_move")
                 /\ call[t].text # PyNone
                 /\ call[t].coordinate # PyNone )
               => ( /\ pc[t] = "idle"
                    /\ ProtocolErrorRaised(outcome[t])
                    /\ log[t] = <<>> ))
    /\ [][\A t \in Tasks :
            ProtocolErrorStep(t) =>
               /\ mouse_x' = mouse_x
               /\ mouse_y' = mouse_y
               /\ held' = held
               /\ log'[t] = <<>>]_vars

\* an out-of-bounds coordinate refused while the cursor is away from (0,0)
C3_Witness ==
    \E t \in Tasks :
        /\ ProtocolErrorRaised(outcome[t])
        /\ call[t].action = PyStr("mouse_move")
        /\ Mentions(outcome[t].exc.msg, " are out of bounds")
        /\ mouse_x # 0

(* C4: with an active scaling target, scale_coordinates with source API     *)
(* raises the out-of-bounds error exactly when x > W or y > H, and returns  *)
(* for every other non-negative input, x = W and y = H included.            *)
C4_OutOfBoundsExactly ==
    ( /\ sc.stage # "input"
      /\ sc.source = API
      /\ HasActiveTarget(width, height) )
    => (sc.res.raised <=> (sc.x > width \/ sc.y > height))

\* the corner (W, H) of a display with an active target is accepted
C4_Witness ==
    /\ sc.stage = "scaled"
    /\ sc.source = API
    /\ HasActiveTarget(width, height)
    /\ sc.x = width
    /\ sc.y = height
    /\ ~sc.res.raised

(* C5: with an active scaling target, a pair with 0 <= x <= W and           *)
(* 0 <= y <= H scaled to device space and back to agent space comes back    *)
(* within one pixel on each axis.                                           *)
C5_RoundTripWithinOne ==
    ( /\ sc.source = API
      /\ HasActiveTarget(width, height)
      /\ sc.x <= width
      /\ sc.y <= height )
    => /\ sc.stage = "scaled" => ~sc.res.raised
       /\ sc.stage = "back" =>
             /\ ~sc.back.raised
             /\ Abs(sc.back.x - sc.x) <= 1
             /\ Abs(sc.back.y - sc.y) <= 1

\* a round trip that does lose a pixel
C5_Witness ==
    /\ sc.stage = "back"
    /\ HasActiveTarget(width, height)
    /\ sc.x <= width
    /\ sc.y <= height
    /\ Abs(sc.back.y - sc.y) = 1

(* C6: for a resolution whose ratio is within 0.02 of no entry of the       *)
(* table, scale_coordinates returns its input unchanged for both sources    *)
(* and never raises, also for x > W or y > H.                               *)
C6_IdentityWithoutMatch ==
    NoRatioMatch(width, height) =>
       /\ sc.stage # "input" => sc.res = Scaled(sc.x, sc.y)
       /\ sc.stage = "back" => sc.back = Scaled(sc.x, sc.y)

\* an input past the display edge returned unchanged
C6_Witness ==
    /\ sc.stage = "scaled"
    /\ sc.source = API
    /\ NoRatioMatch(width, height)
    /\ sc.x > width
    /\ sc.res = Scaled(sc.x, sc.y)

(* C7: the target chosen is the first entry, in the order XGA, WXGA, FWXGA, *)
(* whose ratio is within 0.02 of W / H, and only if it is narrower than the *)
(* display; otherwise there is no target and scaling is the identity, as    *)
(* for 1024x768 and 800x600.                                                *)
C7_FirstRatioMatchOnly ==
    sc.stage # "input" =>
       /\ sc.target = TargetName(ExpectedTarget(width, height))
       /\ ExpectedTarget(width, height) = 0 => sc.res = Scaled(sc.x, sc.y)
       /\ <<width, height>> \in { <<1024, 768>>, <<800, 600>> } => sc.target = ""

\* 1024x768: XGA matches the ratio and is no narrower, so an input past the
\* edge passes unscaled and unchecked
C7_Witness ==
    /\ sc.stage = "scaled"
    /\ sc.source = API
    /\ width = 1024
    /\ height = 768
    /\ sc.x > width
    /\ sc.target = ""
    /\ sc.res = Scaled(sc.x, sc.y)

MouseMove100 ==
    [action |-> PyStr("mouse_move"), text |-> PyNone,
     coordinate |-> PyList(<<I(100), I(100)>>)]

(* C8: at 1920x1080 a mouse_move to (100, 100) sets the cursor to           *)
(* (141, 141), and a cursor_position that follows it reports X=141, Y=141.  *)
C8_ScenarioA ==
    (width = 1920 /\ height = 1080) =>
       \A t \in Tasks :
          /\ call[t] = MouseMove100 =>
                /\ mouse_x = 141
                /\ mouse_y = 141
                /\ outcome[t].kind = "returned" =>
                      outcome[t].res.output = Str(<<"Moved mouse to ", "141", ", ", "141">>)
          /\ ( /\ CursorPositionReturned(t)
               /\ lastPointer.action = "mouse_move"
               /\ lastPointer.given = <<100, 100>> )
             => outcome[t].res.output = Str(<<"X=", "141", ", Y=", "141">>)

C8_Witness ==
    \E t \in Tasks :
        /\ width = 1920
        /\ height = 1080
        /\ CursorPositionReturned(t)
        /\ lastPointer.action = "mouse_move"
        /\ lastPointer.given = <<100, 100>>
        /\ outcome[t].res.output = Str(<<"X=", "141", ", Y=", "141">>)

ValidKey(t) ==
    /\ call[t].action = PyStr("key")
    /\ call[t].text.tag = "str"
    /\ call[t].coordinate = PyNone

\* the press and the screenshot of the key dispatch of task t both worked
KeySucceeded(t) ==
    /\ pc[t] = "idle"
    /\ log[t] # <<>>
    /\ log[t][1].ok
    /\ log[t][Len(log[t])].op = "screenshot"
    /\ log[t][Len(log[t])].ok

(* C9: a valid key dispatch presses exactly one key, the translation of     *)
(* text by the key map (its table value, "Enter" for "Return"; text itself  *)
(* when it is not a key of the table), and on success its output is         *)
(* "Pressed key: " followed by the untranslated text.                       *)
C9_OneMappedKeyPress ==
    \A t \in Tasks :
        ValidKey(t) =>
           /\ pc[t] = "press" => CountOf(t, "keyboard.press") = 0
           /\ pc[t] # "press" =>
                 /\ CountOf(t, "keyboard.press") = 1
                 /\ log[t][1].op = "keyboard.press"
                 /\ log[t][1].strs =
                       (IF call[t].text.s \in DOMAIN xdotool_to_playwright_key_map
                        THEN xdotool_to_playwright_key_map[call[t].text.s]
                        ELSE <<call[t].text.s>>)
                 /\ call[t].text.s = "Return" => log[t][1].strs = <<"Enter">>
                 /\ call[t].text.s = "F5" => log[t][1].strs = <<"F5">>
           /\ KeySucceeded(t) =>
                 /\ outcome[t].kind = "returned"
                 /\ outcome[t].res.output = Str(<<"Pressed key: ", call[t].text.s>>)
                 /\ outcome[t].res.error = NoneStr

C9_Witness ==
    \E t \in Tasks :
        /\ ValidKey(t)
        /\ call[t].text.s = "Return"
        /\ KeySucceeded(t)
        /\ log[t][1].strs = <<"Enter">>
        /\ outcome[t].res.output = Str(<<"Pressed key: ", "Return">>)

(* C10: a dispatch of left_click, right_click, middle_click, double_click,  *)
(* screenshot or cursor_position that supplies coordinate fails with a      *)
(* ToolError that mentions coordinate, one that supplies text fails with a  *)
(* ToolError that mentions text, and one that supplies both fails too.      *)
C10_ZeroArgRejectsFields ==
    \A t \in Tasks :
        ( /\ call[t].action.tag = "str"
          /\ call[t].action.s \in {"left_click", "right_click", "middle_click",
                                   "double_click", "screenshot", "cursor_position"} )
        => /\ (call[t].coordinate # PyNone /\ call[t].text = PyNone) =>
                 /\ pc[t] = "idle"
                 /\ ProtocolErrorRaised(outcome[t])
                 /\ Mentions(outcome[t].exc.msg, "coordinate")
           /\ (call[t].text # PyNone /\ call[t].coordinate = PyNone) =>
                 /\ pc[t] = "idle"
                 /\ ProtocolErrorRaised(outcome[t])
                 /\ Mentions(outcome[t].exc.msg, "text")
           /\ (call[t].text # PyNone /\ call[t].coordinate # PyNone) =>
                 /\ pc[t] = "idle"
                 /\ ProtocolErrorRaised(outcome[t])

\* left_click with a coordinate and no text
C10_Witness ==
    \E t \in Tasks :
        /\ call[t] = [action |-> PyStr("left_click"), text |-> PyNone,
                      coordinate |-> PyList(<<I(100), I(100)>>)]
        /\ ProtocolErrorRaised(outcome[t])
        /\ Mentions(outcome[t].exc.msg, "coordinate")

----------------------------------------------------------------------------
(* PlaywrightTool and the results of both tools *)

\* the dispatch of task t is of PlaywrightTool, of the type, with its keys
PlaywrightAction(t, type) ==
    /\ pw[t].active
    /\ "type" \in pw[t].action.keys
    /\ pw[t].action.type = type
    /\ MissingKey(pw[t].action) = ""

\* the dispatch of task t has ended, and its last driver call failed
EndedInDriverFailure(t) ==
    /\ pc[t] = "idle"
    /\ log[t] # <<>>
    /\ ~log[t][Len(log[t])].ok

\* the result is a reported error whose text has the pieces of context in order
\* and then the text of the cause
ReportsError(o, context, cause) ==
    /\ o.kind = "returned"
    /\ ~o.tuple
    /\ o.res.output = NoneStr
    /\ o.res.base64_image = NoneStr
    /\ o.res.error = Str(context \o <<": ">> \o cause)

(* C11: when a driver call of a goto, scroll or zoom dispatch of           *)
(* PlaywrightTool fails (the navigation, the wheel, the zoom script, or the *)
(* screenshot capture after it), the dispatch does not raise: it returns a  *)
(* result whose error is the action's context followed by the cause (for    *)
(* goto the text has the URL), with output null and image null.             *)
C11_DriverFailureReported ==
    \A t \in Tasks :
        EndedInDriverFailure(t) =>
           LET a == pw[t].action
               cause == <<log[t][Len(log[t])].op, " failed">>
           IN  /\ PlaywrightAction(t, "goto") =>
                     /\ ReportsError(outcome[t], <<"Failed to navigate to page ", a.url>>, cause)
                     /\ Mentions(outcome[t].res.error.msg, "https://a.example")
               /\ PlaywrightAction(t, "scroll") =>
                     ReportsError(outcome[t], <<"Failed to scroll to bottom of page">>, cause)
               /\ PlaywrightAction(t, "zoom") =>
                     ReportsError(outcome[t],
                                  <<"Failed to zoom to ", ToString(a.scale), "%">>, cause)

\* a goto whose navigation failed: the error names the URL and the cause
C11_Witness ==
    \E t \in Tasks :
        /\ PlaywrightAction(t, "goto")
        /\ EndedInDriverFailure(t)
        /\ log[t] = <<Drv("goto", <<>>, <<"https://a.example">>, FALSE)>>
        /\ outcome[t].kind = "returned"
        /\ outcome[t].res.error =
              Str(<<"Failed to navigate to page ", "https://a.example", ": ", "goto", " failed">>)

\* the dispatch of task t is a screenshot with no text and no coordinate
ScreenshotCall(t) ==
    call[t] = [action |-> PyStr("screenshot"), text |-> PyNone, coordinate |-> PyNone]

\* what a screenshot dispatch gave apart from the shape of the returned value:
\* the image, the output, the error and the driver calls made
ScreenshotFields(t) ==
    /\ outcome[t].res.base64_image = Image
    /\ outcome[t].res.output = Str(<<"Taken screenshot">>)
    /\ outcome[t].res.error \in {NoneStr, Str(<<>>)}
    /\ \A i \in DOMAIN log[t] : log[t][i].op = "screenshot"

(* C12: a screenshot dispatch with no text and no coordinate returns a      *)
(* single ToolResult, the shape every other action returns and not a        *)
(* collection that wraps one, whose image is non-null, whose output is      *)
(* "Taken screenshot" and whose error is empty or null, and it makes no     *)
(* driver call other than the screenshot capture.                           *)
C12_ScreenshotSingleResult ==
    \A t \in Tasks :
        (ScreenshotCall(t) /\ pc[t] = "idle" /\ outcome[t].kind = "returned") =>
           /\ ~outcome[t].tuple
           /\ ScreenshotFields(t)

\* a text field of a result that is neither None nor the empty string
IsSet(x) == ~x.isNone /\ x.msg # <<>>

\* a dispatch that ended on a path that reports an error: a driver call it did
\* not recover from failed, or PlaywrightTool read no type or a type it
\* does not have
ReportedErrorPath(t) ==
    \/ EndedInDriverFailure(t)
    \/ /\ pw[t].active
       /\ \/ "type" \notin pw[t].action.keys
          \/ pw[t].action.type \notin {"goto", "scroll", "zoom"}

(* C13 as stated: every result returned by ComputerTool or PlaywrightTool   *)
(* has exactly one of output and error non-null.                            *)
C13_ExactlyOneNonNull ==
    \A t \in Tasks :
        outcome[t].kind = "returned" =>
           (outcome[t].res.output.isNone # outcome[t].res.error.isNone)

(* C13, amended: every result returned by ComputerTool or PlaywrightTool    *)
(* (for screenshot, the result inside the returned 1-tuple) has exactly one *)
(* of output and error non-empty: on every success path output is non-empty *)
(* and error is null, except that the screenshot action sets error to the   *)
(* empty string; on every reported-error path error is non-empty and output *)
(* is null.                                                                 *)
C13_ExactlyOneNonEmpty ==
    \A t \in Tasks :
        outcome[t].kind = "returned" =>
           LET r == outcome[t].res IN
           /\ IsSet(r.output) # IsSet(r.error)
           /\ ReportedErrorPath(t) => (IsSet(r.error) /\ r.output = NoneStr)
           /\ ~ReportedErrorPath(t) =>
                 /\ IsSet(r.output)
                 /\ r.error = (IF ScreenshotCall(t) THEN Str(<<>>) ELSE NoneStr)

\* results of all three kinds exist; the witness is the screenshot result,
\* whose output and error are both non-null
C13_Witness ==
    \E t \in Tasks :
        /\ ScreenshotCall(t)
        /\ outcome[t].kind = "returned"
        /\ outcome[t].res.output = Str(<<"Taken screenshot">>)
        /\ outcome[t].res.error = Str(<<>>)

\* the dispatch of task t has ended and made a driver call that failed, other
\* than a first attempt of the screenshot capture, which take_screenshot
\* makes again
DriverFailed(t) ==
    /\ pc[t] = "idle"
    /\ \E i \in DOMAIN log[t] :
          /\ ~log[t][i].ok
          /\ ~(log[t][i].op = "screenshot" /\ log[t][i].ints = <<>>)

(* C14 as stated: for every action of ComputerTool and PlaywrightTool that  *)
(* passed validation, a failure raised by a driver call is absorbed into a  *)
(* returned result with error set, and the dispatch never raises.           *)
C14_EveryDriverFailureAbsorbed ==
    \A t \in Tasks :
        DriverFailed(t) =>
           /\ outcome[t].kind = "returned"
           /\ ~outcome[t].res.error.isNone

(* C14, amended: for a validated key dispatch of ComputerTool and for goto, *)
(* scroll and zoom of PlaywrightTool, a failure raised by a driver call     *)
(* (the key press, the navigation, the scroll, the zoom, or the screenshot  *)
(* capture after it, its second attempt included) is absorbed into a        *)
(* returned result with error set and output null, and the dispatch does    *)
(* not raise; for mouse_move, left_click_drag, type, the four click actions *)
(* and screenshot such a failure is not absorbed: the dispatch raises it.   *)
C14_AbsorbedByKeyAndPlaywrightOnly ==
    \A t \in Tasks :
        DriverFailed(t) =>
           IF ValidKey(t) \/ pw[t].active
           THEN /\ outcome[t].kind = "returned"
                /\ IsSet(outcome[t].res.error)
                /\ outcome[t].res.output = NoneStr
           ELSE /\ call[t].action.s \in {"mouse_move", "left_click_drag", "type",
                                         "left_click", "right_click", "middle_click",
                                         "double_click", "screenshot"}
                /\ outcome[t].kind = "raised"
                /\ outcome[t].exc.type = "DriverError"

\* a key dispatch whose press succeeded and whose screenshot capture failed
\* twice: the failure is returned as the error of a result
C14_Witness ==
    \E t \in Tasks :
        /\ ValidKey(t)
        /\ DriverFailed(t)
        /\ Len(log[t]) = 3
        /\ log[t][1].ok
        /\ log[t][3] = Drv("screenshot", <<0>>, <<>>, FALSE)
        /\ outcome[t].kind = "returned"
        /\ IsSet(outcome[t].res.error)

----------------------------------------------------------------------------
(* Protocol violations of ComputerTool *)

\* task t has made a dispatch of ComputerTool
ComputerToolDispatched(t) ==
    /\ ~pw[t].active
    /\ pc[t] # "idle" \/ outcome[t].kind # "none"

\* a list of two integers that are not negative
WellFormedPair(c) ==
    /\ c.tag = "list"
    /\ Len(c.elems) = 2
    /\ \A i \in 1..2 : c.elems[i].isint /\ c.elems[i].n >= 0

\* the arguments of the dispatch of task t break a rule of its action
InvalidArgument(t) ==
    LET a == call[t].action
        text == call[t].text
        c == call[t].coordinate
    IN  \/ a.tag = "none"
        \/ a.tag = "str" /\ a.s = ""
        \/ /\ a.s \in {"mouse_move", "left_click_drag"}
           /\ text # PyNone \/ ~WellFormedPair(c)
        \/ /\ a.s \in {"key", "type"}
           /\ text.tag # "str" \/ c # PyNone
        \/ /\ a.s \in {"left_click", "right_click", "middle_click", "double_click",
                       "screenshot", "cursor_position"}
           /\ text # PyNone \/ c # PyNone

\* the action of the dispatch of task t is a name outside the ten
UnknownName(t) ==
    /\ call[t].action.tag = "str"
    /\ call[t].action.s # ""
    /\ call[t].action.s \notin Action

\* a pointer action with valid arguments whose coordinate is past the display
OutOfBoundsCoordinate(t) ==
    /\ call[t].action.s \in {"mouse_move", "left_click_drag"}
    /\ call[t].text = PyNone
    /\ WellFormedPair(call[t].coordinate)
    /\ \/ call[t].coordinate.elems[1].n > width
       \/ call[t].coordinate.elems[2].n > height

\* the dispatch of task t ended in a raised ToolError before any driver call
RaisedProtocolError(t) ==
    /\ pc[t] = "idle"
    /\ ProtocolErrorRaised(outcome[t])
    /\ log[t] = <<>>
    /\ UnknownName(t) =>
          outcome[t].exc.msg = <<"Invalid action: \"", call[t].action.s, "\"">>

(* C15 as stated: ComputerTool never returns a result for a protocol        *)
(* violation: every invalid-argument case, every out-of-bounds coordinate   *)
(* and every action name outside the ten (with any text and coordinate)     *)
(* ends in a raised error, whose message names the raw action string when   *)
(* the name is unknown.                                                     *)
C15_EveryViolationRaises ==
    \A t \in Tasks :
        ( /\ ComputerToolDispatched(t)
          /\ InvalidArgument(t) \/ UnknownName(t) \/ OutOfBoundsCoordinate(t) )
        => RaisedProtocolError(t)

(* C15, amended: ComputerTool never returns a result for a protocol         *)
(* violation: every invalid-argument case, every coordinate that is out of  *)
(* bounds of a display with an active scaling target, and every action name *)
(* outside the ten (with any text and coordinate) ends in a raised error,   *)
(* whose message names the raw action string when the name is unknown; a    *)
(* coordinate past the edge of a display with no active scaling target is   *)
(* not refused.                                                             *)
C15_ViolationRaises ==
    \A t \in Tasks :
        ComputerToolDispatched(t) =>
           /\ ( \/ InvalidArgument(t)
                \/ UnknownName(t)
                \/ OutOfBoundsCoordinate(t) /\ HasActiveTarget(width, height) )
              => RaisedProtocolError(t)
           /\ (OutOfBoundsCoordinate(t) /\ ~HasActiveTarget(width, height))
              => ~ProtocolErrorRaised(outcome[t])

\* the name "scroll", which is not one of the ten, with a text and a coordinate
C15_Witness ==
    \E t \in Tasks :
        /\ call[t] = [action |-> PyStr("scroll"), text |-> PyStr("Return"),
                      coordinate |-> PyList(<<I(100), I(100)>>)]
        /\ RaisedProtocolError(t)
        /\ Mentions(outcome[t].exc.msg, "scroll")

----------------------------------------------------------------------------
(* The key press that fails *)

\* the key press of the valid key dispatch of task t failed, and the
\* dispatch has ended
KeyPressFailed(t) ==
    /\ ValidKey(t)
    /\ pc[t] = "idle"
    /\ log[t] # <<>>
    /\ log[t][1].op = "keyboard.press"
    /\ ~log[t][1].ok

(* C16: when the driver's key press fails in a valid key dispatch, the      *)
(* dispatch does not raise: it returns a result whose error names the key   *)
(* as it was given and the cause, with output null and no image, and no     *)
(* screenshot is captured (the failed press is its only driver call).       *)
C16_KeyFailureReported ==
    \A t \in Tasks :
        KeyPressFailed(t) =>
           /\ outcome[t].kind = "returned"
           /\ ~outcome[t].tuple
           /\ outcome[t].res.error =
                 Str(<<"Failed to press key: ", call[t].text.s, ": ",
                       "keyboard.press", " failed">>)
           /\ outcome[t].res.output = NoneStr
           /\ outcome[t].res.base64_image = NoneStr
           /\ CountOf(t, "screenshot") = 0
           /\ Len(log[t]) = 1

\* key "Return": the press of "Enter" failed and the error names "Return"
C16_Witness ==
    \E t \in Tasks :
        /\ KeyPressFailed(t)
        /\ call[t].text = PyStr("Return")
        /\ log[t] = <<Drv("keyboard.press", <<>>, <<"Enter">>, FALSE)>>
        /\ outcome[t].kind = "returned"
        /\ Mentions(outcome[t].res.error.msg, "Return")

----------------------------------------------------------------------------
(* CursorState *)

\* the step is the start of a dispatch of mouse_move or left_click_drag by
\* task t that passed validation and the bounds check
PointerDispatchStep(t) ==
    /\ pc[t] = "idle"
    /\ pc'[t] \in {"move", "down"}
    /\ ~pw'[t].active
    /\ call'[t].action.s \in {"mouse_move", "left_click_drag"}

(* C17: CursorState is (0,0) after construction and is changed only by      *)
(* mouse_move and left_click_drag: it is (0,0) until the first of them      *)
(* passes validation, and every step of a dispatch of key, type, the four   *)
(* click actions, screenshot, cursor_position, goto, scroll or zoom, failed *)
(* or not, and every later step of a pointer action, leaves it as it was.   *)
C17_CursorChangedOnlyByPointerActions ==
    /\ [](lastPointer = NoPointer => (mouse_x = 0 /\ mouse_y = 0))
    /\ [][ /\ constructed' = "ok" /\ constructed = "no" => (mouse_x' = 0 /\ mouse_y' = 0)
           /\ <<mouse_x, mouse_y>>' # <<mouse_x, mouse_y>> =>
                 \E t \in Tasks : PointerDispatchStep(t) ]_vars

\* a goto of PlaywrightTool has ended in a reported failure after a mouse_move:
\* the cursor is where the mouse_move put it, not at (0,0)
C17_Witness ==
    \E t \in Tasks :
        /\ PlaywrightAction(t, "goto")
        /\ EndedInDriverFailure(t)
        /\ lastPointer.action = "mouse_move"
        /\ <<mouse_x, mouse_y>> = lastPointer.scaled
        /\ mouse_x # 0

----------------------------------------------------------------------------
(* Construction *)

\* task t has made a dispatch of either tool
Dispatched(t) == pc[t] # "idle" \/ outcome[t].kind # "none" \/ log[t] # <<>>

(* C18: constructing the dispatcher fails at once when the configured       *)
(* display width or height is unset or zero (either reads as 0), so no      *)
(* dispatch ever runs against a dispatcher whose width or height is zero.   *)
C18_ZeroSizeFailsConstruction ==
    /\ (constructed # "no" /\ (width = 0 \/ height = 0)) => constructed = "failed"
    /\ constructed = "ok" => (width # 0 /\ height # 0)
    /\ \A t \in Tasks : Dispatched(t) => (constructed = "ok" /\ width # 0 /\ height # 0)

\* WIDTH is set and HEIGHT is not: construction has failed and nothing ran
C18_Witness ==
    /\ constructed = "failed"
    /\ width = 1024
    /\ height = 0
    /\ \A t \in Tasks : ~Dispatched(t)

----------------------------------------------------------------------------
(* PlaywrightTool: a mapping with no type *)

(* C19: a PlaywrightTool dispatch whose action mapping has no type field    *)
(* does not raise and makes no driver call: it ends at once in a returned   *)
(* result with error set ("Action must have a type"), output null and no    *)
(* image, whatever other keys the mapping has.                              *)
C19_MissingTypeReported ==
    \A t \in Tasks :
        (pw[t].active /\ "type" \notin pw[t].action.keys) =>
           /\ pc[t] = "idle"
           /\ log[t] = <<>>
           /\ outcome[t].kind = "returned"
           /\ ~outcome[t].tuple
           /\ outcome[t].res.error = Str(<<"Action must have a type">>)
           /\ outcome[t].res.output = NoneStr
           /\ outcome[t].res.base64_image = NoneStr

\* a mapping that has a url and no type
C19_Witness ==
    \E t \in Tasks :
        /\ pw[t].active
        /\ pw[t].action.keys = {"url"}
        /\ outcome[t].kind = "returned"
        /\ outcome[t].res.error = Str(<<"Action must have a type">>)
        /\ log[t] = <<>>

----------------------------------------------------------------------------
(* The image of a result of ComputerTool *)

\* the driver call that carries out the action
ActionOp(a) ==
    CASE a \in {"mouse_move", "left_click_drag"} -> "mouse.move"
      [] a = "key" -> "keyboard.press"
      [] a = "type" -> "keyboard.type"
      [] a \in {"left_click", "right_click", "middle_click"} -> "mouse.click"
      [] a = "double_click" -> "mouse.dblclick"
      [] OTHER -> "screenshot"

\* the dispatch of task t is of one of the nine actions that take a
\* screenshot, and it returned a result that reports no error
SucceededWithScreenshot(t) ==
    /\ ComputerToolDispatched(t)
    /\ pc[t] = "idle"
    /\ call[t].action.s \in Action \ {"cursor_position"}
    /\ outcome[t].kind = "returned"
    /\ ~IsSet(outcome[t].res.error)

\* log entry i of task t is a screenshot capture that succeeded, every driver
\* call of the action was made before it and succeeded, and the call that
\* carries out the action is among them
CapturedAfterAction(t, i) ==
    /\ log[t][i].op = "screenshot"
    /\ log[t][i].ok
    /\ \A j \in DOMAIN log[t] :
          log[t][j].op \notin {"screenshot", "mouse.up"} => (j < i /\ log[t][j].ok)
    /\ \E j \in 1..i : log[t][j].op = ActionOp(call[t].action.s) /\ log[t][j].ok

(* C20: every successful ComputerTool result of mouse_move,                 *)
(* left_click_drag, key, type, left_click, right_click, middle_click,       *)
(* double_click and screenshot (there, the result inside the returned       *)
(* 1-tuple) carries a non-null image, captured after the driver call of the *)
(* action; a cursor_position dispatch makes no driver                       *)
(* call at all (no screenshot) and returns the output "X=<x>, Y=<y>" of the *)
(* current CursorState with a null image.                                   *)
C20_ImageAfterAction ==
    \A t \in Tasks :
        /\ SucceededWithScreenshot(t) =>
              /\ outcome[t].res.base64_image = Image
              /\ \E i \in DOMAIN log[t] : CapturedAfterAction(t, i)
        /\ CursorPositionReturned(t) =>
              /\ log[t] = <<>>
              /\ outcome[t].res.output =
                    Str(<<"X=", ToString(mouse_x), ", Y=", ToString(mouse_y)>>)
              /\ outcome[t].res.base64_image = NoneStr

\* a double_click that succeeded: the element was looked up, the double click
\* made, and the screenshot captured after it
C20_Witness ==
    \E t \in Tasks :
        /\ SucceededWithScreenshot(t)
        /\ call[t].action.s = "double_click"
        /\ Len(log[t]) = 3
        /\ log[t][2].op = "mouse.dblclick"
        /\ CapturedAfterAction(t, 3)
        /\ outcome[t].res.base64_image = Image

----------------------------------------------------------------------------
(* CursorState and the driver's pointer *)

\* the mouse_move or left_click_drag of task t passed validation and the
\* bounds check, and has ended in a return or a raise
PointerDispatchCompleted(t) ==
    /\ pc[t] = "idle"
    /\ call[t].action.s \in {"mouse_move", "left_click_drag"}
    /\ outcome[t].kind # "none"
    /\ ~ProtocolErrorRaised(outcome[t])

(* C21: under serialized dispatch, after every completed mouse_move or      *)
(* left_click_drag, whether it returned or raised, CursorState equals the   *)
(* driver's pointer position, which is (0,0) plus the sum of the deltas the *)
(* driver applied: CursorState is updated only when the driver has moved    *)
(* the pointer by the delta.                                                *)
C21_CursorIsPointer ==
    \A t \in SerialTasks :
        (ptr.follow /\ PointerDispatchCompleted(t)) =>
           (mouse_x = ptr.x /\ mouse_y = ptr.y)

----------------------------------------------------------------------------
(* The scale factors *)

(* C22: whenever a scaling target is selected for a device resolution       *)
(* (W, H), both scale factors are at most 1: target.width <= W and          *)
(* target.height <= H, so converting to device space never decreases a      *)
(* coordinate and converting to agent space never increases one.            *)
C22_FactorsAtMostOne ==
    (sc.stage # "input" /\ TargetDimension(width, height) # 0) =>
       LET d == MAX_SCALING_TARGETS[TargetDimension(width, height)]
       IN  /\ d.width <= width
           /\ d.height <= height
           /\ (sc.source = API /\ ~sc.res.raised) =>
                 (sc.res.x >= sc.x /\ sc.res.y >= sc.y)
           /\ sc.source = COMPUTER =>
                 (sc.res.x <= sc.x /\ sc.res.y <= sc.y)

----------------------------------------------------------------------------
(* The clicks *)

\* the dispatch of task t is a left_click, right_click or middle_click with
\* no text and no coordinate
SingleClickCall(t) ==
    /\ call[t].action.s \in {"left_click", "right_click", "middle_click"}
    /\ call[t].text = PyNone
    /\ call[t].coordinate = PyNone

\* the button the action names
NamedButton(a) ==
    CASE a = "left_click" -> "left"
      [] a = "right_click" -> "right"
      [] a = "middle_click" -> "middle"

\* the driver calls of task t that click or move the pointer or its button
PointerCallsMade(t) ==
    {i \in DOMAIN log[t] :
        log[t][i].op \in {"mouse.click", "mouse.dblclick", "mouse.move",
                          "mouse.down", "mouse.up"}}

(* C23: a valid left_click, right_click or middle_click issues exactly one  *)
(* driver click, at the current CursorState (x, y) and with the button the  *)
(* action names, then captures a screenshot, and returns success text that  *)
(* reports that button and that position; the pointer is not moved and      *)
(* CursorState is unchanged (it is where the last pointer action put it).   *)
C23_OneClickAtCursor ==
    \A t \in Tasks :
        SingleClickCall(t) =>
           /\ <<mouse_x, mouse_y>> = lastPointer.scaled
           /\ \A i \in PointerCallsMade(t) :
                 /\ log[t][i].op = "mouse.click"
                 /\ log[t][i].ints = <<mouse_x, mouse_y>>
                 /\ log[t][i].strs = <<NamedButton(call[t].action.s)>>
           /\ Cardinality(PointerCallsMade(t)) <= 1
           /\ pc[t] \in {"shot1", "shot2"} => CountOf(t, "mouse.click") = 1
           /\ (pc[t] = "idle" /\ outcome[t].kind = "returned") =>
                 /\ CountOf(t, "mouse.click") = 1
                 /\ log[t][Len(log[t])].op = "screenshot"
                 /\ log[t][Len(log[t])].ok
                 /\ \E i \in PointerCallsMade(t) : i < Len(log[t]) /\ log[t][i].ok
                 /\ outcome[t].res.error = NoneStr
                 /\ outcome[t].res.base64_image = Image
                 /\ \E xpath \in Xpaths :
                       outcome[t].res.output =
                          Str(<<"Clicked ", NamedButton(call[t].action.s), " button at ",
                                ToString(mouse_x), ", ", ToString(mouse_y),
                                ". Xpath = ", xpath>>)

\* a right_click after a mouse_move: one click with the right button at the
\* position the move left, and the text reports both
C23_Witness ==
    \E t \in Tasks :
        /\ SingleClickCall(t)
        /\ call[t].action.s = "right_click"
        /\ pc[t] = "idle"
        /\ outcome[t].kind = "returned"
        /\ mouse_x # 0
        /\ log[t][2] = Drv("mouse.click", <<mouse_x, mouse_y>>, <<"right">>, TRUE)
        /\ Mentions(outcome[t].res.output.msg, "right")
        /\ Mentions(outcome[t].res.output.msg, ToString(mouse_x))

----------------------------------------------------------------------------
(* The release of left_click_drag *)

\* the left_click_drag of task t passed validation and the bounds check, and
\* has ended
DragEnded(t) ==
    /\ call[t].action = PyStr("left_click_drag")
    /\ PointerDispatchCompleted(t)

\* the press of the left_click_drag of task t succeeded
PressSucceeded(t) ==
    \E i \in DOMAIN log[t] : log[t][i].op = "mouse.down" /\ log[t][i].ok

(* C24 as stated: in left_click_drag, over every outcome of the driver      *)
(* steps, the driver's release is issued if and only if the press           *)
(* succeeded, it is issued at most once, and after the dispatch ends the    *)
(* button is not left held down.                                            *)
C24_ReleaseIffPressed ==
    \A t \in Tasks :
        DragEnded(t) =>
           /\ (CountOf(t, "mouse.up") >= 1) <=> PressSucceeded(t)
           /\ CountOf(t, "mouse.up") <= 1
           /\ ~held

(* C24, amended: in left_click_drag the press is inside the scope that      *)
(* guarantees the release: over every outcome of the driver steps (press    *)
(* fails, move fails, screenshot fails, all succeed) the driver's release   *)
(* is issued exactly once, as the last driver call, whether or not the      *)
(* press succeeded; after the dispatch ends the button is not held down     *)
(* when the release succeeded, and when the release fails the dispatch      *)
(* raises the release's error and a button that was pressed stays held.     *)
C24_ReleaseAlwaysOnce ==
    \A t \in Tasks :
        DragEnded(t) =>
           LET last == log[t][Len(log[t])] IN
           /\ CountOf(t, "mouse.up") = 1
           /\ last.op = "mouse.up"
           /\ log[t][1].op = "mouse.down"
           /\ last.ok => ~held
           /\ ~last.ok =>
                 /\ PressSucceeded(t) => held
                 /\ outcome[t].kind = "raised"
                 /\ outcome[t].exc.op = "mouse.up"

\* the press failed, and the release was issued all the same
C24_Witness ==
    \E t \in Tasks :
        /\ DragEnded(t)
        /\ log[t] = <<Drv("mouse.down", <<>>, <<>>, FALSE), Drv("mouse.up", <<>>, <<>>, TRUE)>>
        /\ outcome[t].kind = "raised"
        /\ outcome[t].exc.op = "mouse.down"
        /\ ~held

----------------------------------------------------------------------------
(* The options property: scale_coordinates(COMPUTER, width, height) for a   *)
(* grid of device resolutions                                               *)

\* the device resolutions are the multiples of ResolutionStep up to
\* MaxWidthSteps and MaxHeightSteps steps, and those of ScaleResolutions
ResolutionStep == 8
MaxWidthSteps == 260
MaxHeightSteps == 140

GridResolutions ==
    { <<ResolutionStep * i, ResolutionStep * j>> :
          i \in 1 .. MaxWidthSteps, j \in 1 .. MaxHeightSteps }
    \cup ScaleResolutions

InitOptions ==
    /\ constructed = "ok"
    /\ \E r \in GridResolutions : width = r[1] /\ height = r[2]
    /\ mouse_x = 0
    /\ mouse_y = 0
    /\ pc = [t \in Tasks |-> "idle"]
    /\ call = [t \in Tasks |-> NoCall]
    /\ pw = [t \in Tasks |-> NoPw]
    /\ loc = [t \in Tasks |-> NoLoc]
    /\ outcome = [t \in Tasks |-> NoOutcome]
    /\ log = [t \in Tasks |-> <<>>]
    /\ held = FALSE
    /\ lastPointer = NoPointer
    /\ ptr = NoPtr
    /\ sc = [NoScale EXCEPT !.source = COMPUTER, !.x = width, !.y = height,
                            !.stage = "input"]

\* width, height = self.scale_coordinates(ScalingSource.COMPUTER, self.width,
\* self.height)
Options ==
    /\ sc.stage = "input"
    /\ sc.source = COMPUTER
    /\ sc' = [sc EXCEPT
                !.res = scale_coordinates(COMPUTER, width, height, width, height),
                !.target = TargetName(TargetDimension(width, height)),
                !.stage = "scaled"]
    /\ UNCHANGED toolVars

NextOptions == Options

SpecOptions == InitOptions /\ [][NextOptions]_vars

\* the entries of the table whose aspect ratio is within the tolerance of W/H
RatioMatchSet(W, H) ==
    { i \in DOMAIN MAX_SCALING_TARGETS : RatioMatches(MAX_SCALING_TARGETS[i], W, H) }

\* what a scan of the whole table finds: the entries that match the ratio and
\* are narrower than the display
WholeTableTargets(W, H) ==
    { i \in RatioMatchSet(W, H) : MAX_SCALING_TARGETS[i].width < W }

\* the aspect ratios of entries d and e are at least twice the tolerance
\* apart: |dw/dh - ew/eh| >= 0.04, over the rationals
RatiosApart(d, e) ==
    25 * Abs(d.width * e.height - e.width * d.height) >= d.height * e.height

(* C25: for every device resolution (W, H) with W, H > 0 at most one entry  *)
(* of the target table has an aspect ratio within 0.02 of W/H (the ratios   *)
(* of any two entries are at least 0.04 apart), so the scan that stops at   *)
(* the first ratio match selects the same target as a scan of the whole     *)
(* table for an entry that matches the ratio and has width < W.             *)
C25_FirstMatchIsOnlyMatch ==
    /\ \A i, j \in DOMAIN MAX_SCALING_TARGETS :
          i # j => RatiosApart(MAX_SCALING_TARGETS[i], MAX_SCALING_TARGETS[j])
    /\ sc.stage = "scaled" =>
          /\ width > 0 /\ height > 0
          /\ Cardinality(RatioMatchSet(width, height)) <= 1
          /\ sc.target = "" <=> WholeTableTargets(width, height) = {}
          /\ \A i \in WholeTableTargets(width, height) :
                sc.target = MAX_SCALING_TARGETS[i].name

\* the scan passed two entries and stopped at the third, the only one that
\* matches the ratio of the display
C25_Witness ==
    /\ sc.stage = "scaled"
    /\ width = 1920 /\ height = 1080
    /\ RatioMatchSet(width, height) = {3}
    /\ sc.target = "FWXGA"
    /\ sc.res.x = 1366 /\ sc.res.y = 768

----------------------------------------------------------------------------
(* Where CursorState can be *)

(* C26 as stated: after any sequence of dispatches CursorState is a pair of *)
(* non-negative integers inside the real display, 0 <= x <= W and           *)
(* 0 <= y <= H, with or without an active scaling target.                   *)
C26_CursorInsideDisplay ==
    constructed = "ok" =>
        /\ mouse_x \in 0 .. width
        /\ mouse_y \in 0 .. height

(* C26, amended: after any sequence of dispatches CursorState is a pair of  *)
(* non-negative integers. With an active scaling target it is at most the   *)
(* scaled-up display corner (round(W * W / target.width),                   *)
(* round(H * H / target.height)), and it is inside the real display, x <= W *)
(* and y <= H, when the pair last given was inside the target. Without an   *)
(* active target it is the pair last given, whatever its size.              *)
C26_CursorNonNegative ==
    constructed = "ok" =>
        LET i == TargetDimension(width, height)
            given == lastPointer.given
        IN
        /\ mouse_x \in Nat
        /\ mouse_y \in Nat
        /\ i # 0 =>
              LET target == MAX_SCALING_TARGETS[i] IN
              /\ mouse_x <= ScaleUp(width, target.width, width)
              /\ mouse_y <= ScaleUp(height, target.height, height)
              /\ given[1] <= target.width /\ given[2] <= target.height
                    => mouse_x <= width /\ mouse_y <= height
        /\ i = 0 => <<mouse_x, mouse_y>> = given

\* a mouse_move or left_click_drag returned and left the cursor past the
\* display, with an active target
C26_Witness ==
    \E t \in Tasks :
        /\ PointerDispatchCompleted(t)
        /\ outcome[t].kind = "returned"
        /\ TargetDimension(width, height) # 0
        /\ lastPointer.given = <<width, height>>
        /\ mouse_x > width
        /\ mouse_y > height

----------------------------------------------------------------------------
(* Pointer dispatches that overlap *)

\* the device-space pair the scaling step of the dispatch of task t computed
OwnScaled(t) ==
    LET c == call[t].coordinate.elems IN
    scale_coordinates(API, c[1].n, c[2].n, width, height)

\* the text a mouse_move or left_click_drag that moved to pair p returns
MovedText(t, p) == Str(MovedOutput(call[t].action.s, p.x, p.y))

\* the mouse_move of task t has returned its success result
MoveSucceeded(t) ==
    /\ pc[t] = "idle"
    /\ call[t].action = PyStr("mouse_move")
    /\ outcome[t].kind = "returned"
    /\ IsSet(outcome[t].res.output)
    /\ ~IsSet(outcome[t].res.error)

\* the moves the driver applied for the dispatch of task t
MovesApplied(t) ==
    { i \in DOMAIN log[t] : log[t][i].op = "mouse.move" /\ log[t][i].ok }

\* component k of the delta of the one move applied for task t
AppliedDelta(t, k) == log[t][CHOOSE i \in MovesApplied(t) : TRUE].ints[k]

\* each task has made one pointer dispatch, a mouse_move that succeeded, and
\* there has been no other
BothMovesSucceeded ==
    /\ ptr.follow
    /\ ptr.n = Cardinality(Tasks)
    /\ \A t \in Tasks : MoveSucceeded(t)

(* C27: when two mouse_move dispatches on the same dispatcher overlap, once *)
(* both have completed successfully the sum of the deltas passed to the     *)
(* driver equals the final CursorState, which is then where the driver's    *)
(* pointer is: scaling, delta and cursor update of a dispatch run with no   *)
(* suspension point between them.                                           *)
C27_OverlappedDeltasAddUp ==
    BothMovesSucceeded =>
        /\ \A t \in Tasks : Cardinality(MovesApplied(t)) = 1
        /\ AppliedDelta(1, 1) + AppliedDelta(2, 1) = mouse_x
        /\ AppliedDelta(1, 2) + AppliedDelta(2, 2) = mouse_y
        /\ <<ptr.x, ptr.y>> = <<mouse_x, mouse_y>>

\* both moves succeeded, and they overlapped: the second was dispatched,
\* with a non-zero delta from the position of the first, before the first
\* formatted its text, which names the position of the second
C27_Witness ==
    /\ BothMovesSucceeded
    /\ width = 1920
    /\ OwnScaled(1) = Scaled(141, 70)
    /\ OwnScaled(2) = Scaled(141, 141)
    /\ AppliedDelta(1, 2) = 70
    /\ AppliedDelta(2, 2) = 71
    /\ outcome[1].res.output = MovedText(1, OwnScaled(2))

----------------------------------------------------------------------------
(* The position the success text of a pointer action reports *)

\* "Moved mouse to X, Y" / "Dragged mouse to X, Y"
SuccessText(a, x, y) ==
    IF a = "mouse_move"
    THEN <<"Moved mouse to ", ToString(x), ", ", ToString(y)>>
    ELSE <<"Dragged mouse to ", ToString(x), ", ", ToString(y)>>

\* the mouse_move or left_click_drag of task t has returned its success text
PointerActionSucceeded(t) ==
    /\ PointerDispatchCompleted(t)
    /\ outcome[t].kind = "returned"
    /\ IsSet(outcome[t].res.output)

(* C28 as stated: the success text of a mouse_move or left_click_drag       *)
(* always reports the device-space position computed by that same           *)
(* dispatch's scaling step, including when another pointer dispatch on the  *)
(* same dispatcher runs while this one is suspended in the driver's move    *)
(* call.                                                                    *)
C28_TextReportsOwnPosition ==
    \A t \in Tasks :
        PointerActionSucceeded(t) =>
            outcome[t].res.output =
                Str(SuccessText(call[t].action.s, OwnScaled(t).x, OwnScaled(t).y))

\* the driver's move call of task t returns in this step
MoveReturns(t) == pc[t] = "move" /\ pc'[t] # "move" /\ loc'[t].output # <<>>

\* the success result of the pointer action of task t is handed over in this
\* step
SuccessHandedOver(t) ==
    /\ pc[t] # "idle"
    /\ call[t].action.s \in {"mouse_move", "left_click_drag"}
    /\ pc'[t] = "idle"
    /\ outcome'[t].kind = "returned"

\* no other task has dispatched anything
NoOtherDispatch(t) == \A u \in Tasks \ {t} : call[u] = NoCall

(* C28, amended: the success text of a mouse_move or left_click_drag        *)
(* reports CursorState as it is when the driver's move call returns, which  *)
(* is the device-space position computed by the scaling step of the latest  *)
(* pointer dispatch that passed validation. Under serialized dispatch that  *)
(* is the position computed by the same dispatch; when another pointer      *)
(* dispatch ran while this one was suspended in the move call, it is the    *)
(* position of that other dispatch.                                         *)
C28_TextReportsCursorAtMoveReturn ==
    [][\A t \in Tasks :
          /\ MoveReturns(t) =>
                /\ loc'[t].output =
                      SuccessText(call[t].action.s, mouse_x, mouse_y)
                /\ <<mouse_x, mouse_y>> = lastPointer.scaled
                /\ NoOtherDispatch(t) =>
                      <<mouse_x, mouse_y>> = <<OwnScaled(t).x, OwnScaled(t).y>>
          /\ SuccessHandedOver(t) =>
                outcome'[t].res.output = Str(loc[t].output)
      ]_vars

\* a drag was dispatched to (141, 141), a mouse_move to (141, 70) was
\* dispatched while the drag was suspended in the move call, and the drag
\* reports the position of the mouse_move
C28_Witness ==
    \E t \in Tasks :
        /\ PointerActionSucceeded(t)
        /\ call[t].action = PyStr("left_click_drag")
        /\ width = 1920
        /\ OwnScaled(t) = Scaled(141, 141)
        /\ outcome[t].res.output = Str(<<"Dragged mouse to ", "141", ", ", "70">>)
        /\ lastPointer.action = "mouse_move"

----------------------------------------------------------------------------
(* PlaywrightTool: mappings that cannot be carried out *)

\* the mapping of task t has a type that is none of goto, scroll and zoom
UnknownType(t) ==
    /\ "type" \in pw[t].action.keys
    /\ pw[t].action.type \notin {"goto", "scroll", "zoom"}

\* the mapping of task t is a goto, scroll or zoom without a field it needs
LacksRequiredField(t) ==
    /\ "type" \in pw[t].action.keys
    /\ pw[t].action.type \in {"goto", "scroll", "zoom"}
    /\ MissingKey(pw[t].action) # ""

(* C29: a PlaywrightTool dispatch never raises, for any action mapping: an  *)
(* unknown type, and a goto, scroll or zoom mapping that lacks its required *)
(* field (url; dx or dy; scale), each end in a returned result with error   *)
(* set and make no driver call.                                             *)
C29_PlaywrightNeverRaises ==
    \A t \in Tasks :
        (pw[t].active /\ pc[t] = "idle") =>
           /\ outcome[t].kind # "raised"
           /\ (UnknownType(t) \/ LacksRequiredField(t)) =>
                 /\ outcome[t].kind = "returned"
                 /\ IsSet(outcome[t].res.error)
                 /\ log[t] = <<>>

====
